---- MODULE Spec2Model ----
(***************************************************************************)
(* Model of the pipeline builder backend: the in-memory LockManager         *)
(* (backend/lock_manager.py), the lock routes and update_pipeline            *)
(* (backend/app.py) and the batch provisioning workflow create_pipelines     *)
(* (backend/app.py).                                                         *)
(***************************************************************************)
EXTENDS Integers, Sequences, FiniteSets, TLC

(***************************************************************************)
(* Bounds of the model.  Time is counted in whole ticks; the lock timeout    *)
(* is the constructor parameter lock_timeout_minutes, counted in ticks.      *)
(***************************************************************************)
MaxTime == 3

lock_timeout_minutes == 1

MaxRuns == 2

Pipelines == {"svc-api", "svc-app"}

Users == {"alice", "bob"}

Threads == {"t1", "t2"}

MainThread == "t1"

NoThread == "none"

NoUser == "nobody"

NoTime == -1

(***************************************************************************)
(* State.                                                                    *)
(*   locks      LockManager.locks: pipeline name -> lock info (NoLock: key   *)
(*              absent)                                                      *)
(*   hold_start history: for a key present in locks, the current_time of     *)
(*              the acquire_lock call that wrote the entry                   *)
(*   first_hold history: for a key present in locks, the current_time of     *)
(*              the first acquire_lock call of the present holder since the  *)
(*              key was last absent or held by another user                  *)
(*   now        datetime.now(), in ticks                                     *)
(*   mutex      LockManager._lock: the thread inside a `with self._lock`     *)
(*   call       per thread: the call it is executing or has last completed   *)
(*   upd        the update_pipeline request being served                     *)
(*   files      files present in the CodeCommit repositories: <<name, file>> *)
(*   meta       the metadata table: pipeline name -> record (NoRecord: no    *)
(*              item); environmentVariables is "list" or "null" (the JSON    *)
(*              value the record holds under that key)                       *)
(*   cr         the create_pipelines request being served                    *)
(*   remote     the resources present in AWS, per kind: CodePipeline         *)
(*              pipelines, CodeBuild projects, ECR repositories, S3 buckets; *)
(*              store holds <<pipeline, bucket>> for the artifact store of   *)
(*              each pipeline                                                *)
(*   del        the delete_pipeline_resources request being served           *)
(*   save_req   the POST pipeline-metadata request being served              *)
(*   manifest_template  the two template files of load_manifest_template     *)
(*   gen        the call of generate_k8s_manifest being made                 *)
(*   stg        the stored pipeline settings and the load being made         *)
(*   peer       the create_pipelines request of a second worker, held while  *)
(*              the first worker's request (cr) takes its steps              *)
(*   chk        the validate-pipeline-name request being served              *)
(***************************************************************************)
VARIABLES locks, hold_start, first_hold, now, mutex, call, upd, files, meta, cr, remote, del,
          save_req, manifest_template, gen, stg, peer, chk

lockVars == <<locks, hold_start, first_hold, now, mutex, call>>

storeVars == <<files, meta>>

createVars == <<cr, remote>>

\* the template files, the manifest generation, the settings merge, the
\* create request of the other worker and the validate-pipeline-name request
utilVars == <<manifest_template, gen, stg, peer, chk>>

appVars == <<upd, files, meta, cr, remote, del, save_req, utilVars>>

vars == <<locks, hold_start, first_hold, now, mutex, call, upd, files, meta, cr, remote, del,
          save_req, manifest_template, gen, stg, peer, chk>>

NoLock == [user_id |-> NoUser, acquired_at |-> NoTime, last_activity |-> NoTime]

EmptyLocks == [p \in Pipelines |-> NoLock]

NoStarts == [p \in Pipelines |-> NoTime]

None == [none |-> TRUE]

IdleCall ==
    [pc |-> "idle", op |-> "none", p |-> "none", u |-> NoUser, force |-> FALSE,
     at |-> NoTime, pre |-> EmptyLocks, orig |-> NoTime, post |-> EmptyLocks,
     ret |-> None, http |-> 0]

NoRecord == [createdAt |-> NoTime, lastUpdated |-> NoTime, editor |-> NoUser,
             s3Bucket |-> <<>>, environmentVariables |-> "list"]

EmptyMeta == [p \in Pipelines |-> NoRecord]

NoConfig == [none |-> TRUE]

\* the item _SETTINGS_pipeline_settings of the table
NoSettings == [exists |-> FALSE, data |-> {}]

Stored(settings) == [exists |-> TRUE, data |-> settings]

\* `loaded` are the pipeline records and `reserved` the settings item that
\* load_pipeline_metadata() returned to the request
IdleUpdate ==
    [pc |-> "idle", p |-> "none", u |-> NoUser, cfg |-> NoConfig, at |-> NoTime,
     entry |-> NoLock, http |-> 0, uploaded |-> {}, wrote |-> FALSE,
     loaded |-> EmptyMeta, reserved |-> NoSettings]

NoName == "none"

NoBucket == <<>>

NoRemote == [codepipeline |-> {}, codebuild |-> {}, ecr |-> {}, s3 |-> {}, store |-> {}]

\* created_resources = {'ecr_repository': None, ..., 'codecommit_files': []}
EmptyLedger ==
    [ecr_repository |-> NoName, codebuild_project |-> NoName, codepipeline |-> NoName,
     s3_bucket |-> NoBucket, codecommit_files |-> <<>>]

IdleCreate ==
    [pc |-> "idle", batch |-> <<>>, idx |-> 0, found |-> <<>>, ledger |-> EmptyLedger,
     bucket_name |-> NoBucket, trace |-> <<>>, error |-> "none", rollback_errors |-> <<>>,
     created_pipelines |-> <<>>, http |-> 0, success |-> FALSE, route_error |-> "none",
     at_start |-> NoRemote, earlier |-> {}]

\* successes = [], errors = []; pipeline_meta = None
\* `faulty` tells that a call of this run failed, `previous` is the run served
\* before this one and `runs` the number of runs so far
IdleDelete ==
    [pc |-> "idle", p |-> NoName, pipeline_meta |-> NoRecord, successes |-> <<>>,
     errors |-> <<>>, http |-> 0, success |-> FALSE, route_error |-> "none",
     faulty |-> FALSE,
     previous |-> [p |-> NoName, faulty |-> FALSE, http |-> 0], runs |-> 0]

\* errors = []
IdleCheck == [pc |-> "idle", name |-> NoName, errors |-> <<>>, success |-> FALSE,
              valid |-> FALSE, http |-> 0]

IdlePost ==
    [pc |-> "idle", p |-> NoName, loaded |-> EmptyMeta, reserved |-> NoSettings, http |-> 0]

(***************************************************************************)
(* The manifest generator.  A text is a sequence of pieces, a piece being   *)
(* a run of characters; the placeholder '{{ name }}' is the three pieces    *)
(* "{{ ", name, " }}", so that str.replace is modelled on the text itself   *)
(* and a placeholder can also arise from the pieces of two neighbours.      *)
(***************************************************************************)
Token(name) == <<"{{ ", name, " }}">>

\* the placeholders generate_k8s_manifest replaces, in the order of lines 250-282
Placeholders ==
    <<"pipeline_name", "namespace", "app_type", "product", "image", "memory_limit",
      "cpu_limit", "memory_request", "cpu_request", "node_group", "target_port",
      "service_type", "node_affinity_section">>

\* values of a JSON deployment config, with the text str() gives for them
Str(text) == [type |-> "str", text |-> text]

Num(text) == [type |-> "int", text |-> text]

NoneValue == [type |-> "NoneType", text |-> <<"None">>]

True == [type |-> "bool", text |-> <<"True">>]

False == [type |-> "bool", text |-> <<"False">>]

\* bool(value)
Truthy(value) ==
    CASE value.type = "bool" -> value.text = <<"True">>
      [] value.type = "NoneType" -> FALSE
      [] value.type = "int" -> value.text # <<"0">>
      [] OTHER -> value.text # <<>>

\* {} and dict.get(key, default)
EmptyConfig == [k \in {} |-> NoneValue]

get(config, key, default) == IF key \in DOMAIN config THEN config[key] ELSE default

\* str.replace(old, new): every occurrence, leftmost first, not overlapping;
\* ReplaceFrom is the scan from position i on, from one occurrence to the next
RECURSIVE ReplaceFrom(_, _, _, _)
ReplaceFrom(text, old, new, i) ==
    LET found == {j \in i..(Len(text) - Len(old) + 1) : SubSeq(text, j, j + Len(old) - 1) = old}
    IN  IF found = {} THEN SubSeq(text, i, Len(text))
        ELSE LET j == CHOOSE first \in found : \A other \in found : first <= other
             IN  SubSeq(text, i, j - 1) \o new \o ReplaceFrom(text, old, new, j + Len(old))

replace(text, old, new) ==
    CHOOSE replaced \in {ReplaceFrom(subject, old, new, 1) : subject \in {text}} : TRUE

\* the affinity and tolerations lines, lines 207-220 and 265-278
AffinityBlock(node_group) ==
    <<"affinity: nodeAffinity: key: ">> \o node_group \o <<"tolerations: key: ">> \o node_group

\* the template returned when neither file exists, lines 173-236
BuiltinTemplate ==
    <<"kind: Deployment name: deployment-">> \o Token("pipeline_name")
    \o <<"namespace: ">> \o Token("namespace")
    \o <<"app.type: ">> \o Token("app_type")
    \o <<"product: ">> \o Token("product")
    \o <<"matchLabels: ">> \o Token("pipeline_name")
    \o <<"labels: ">> \o Token("pipeline_name") \o Token("app_type")
    \o Token("pipeline_name") \o Token("product")
    \o <<"containers: name: ">> \o Token("pipeline_name")
    \o <<"image: ">> \o Token("image")
    \o <<"containerPort: ">> \o Token("target_port")
    \o <<"limits: ">> \o Token("memory_limit") \o Token("cpu_limit")
    \o <<"requests: ">> \o Token("memory_request") \o Token("cpu_request")
    \o AffinityBlock(Token("node_group"))
    \o <<"kind: Service name: ">> \o Token("pipeline_name")
    \o <<"namespace: ">> \o Token("namespace")
    \o <<"selector: ">> \o Token("pipeline_name")
    \o <<"targetPort: ">> \o Token("target_port")
    \o <<"type: ClusterIP">>

\* a template file: manifest_template.yml beside app.py, deployment.yml two
\* directories up
NoFile == [exists |-> FALSE, text |-> <<>>]

File(text) == [exists |-> TRUE, text |-> text]

NoTemplates == [custom |-> NoFile, default |-> NoFile]

\* load_manifest_template; `readable` is FALSE when reading raises
load_manifest_template(templates, readable) ==
    IF ~readable THEN [source |-> "error", template |-> <<>>]
    ELSE IF templates.custom.exists
         THEN [source |-> "custom", template |-> templates.custom.text]
         ELSE IF templates.default.exists
              THEN [source |-> "default", template |-> templates.default.text]
              ELSE [source |-> "builtin", template |-> BuiltinTemplate]

\* the second arguments of the replace calls of lines 250-261
Substitutions(pipeline_name, ecr_uri, deployment_config) ==
    <<Str(pipeline_name),
      get(deployment_config, "namespace", Str(<<"staging-locobuzz">>)),
      get(deployment_config, "appType", Str(<<"csharp">>)),
      get(deployment_config, "product", Str(<<"cmo">>)),
      Str(ecr_uri \o <<":latest">>),
      get(deployment_config, "memoryLimit", Str(<<"300Mi">>)),
      get(deployment_config, "cpuLimit", Str(<<"300m">>)),
      get(deployment_config, "memoryRequest", Str(<<"150Mi">>)),
      get(deployment_config, "cpuRequest", Str(<<"150m">>)),
      get(deployment_config, "nodeGroup", Str(<<"cmo-nodegroup">>)),
      Str(get(deployment_config, "targetPort", Num(<<"80">>)).text),
      get(deployment_config, "serviceType", Str(<<"ClusterIP">>))>>

\* node_affinity_section, lines 264-280
NodeAffinitySection(deployment_config) ==
    IF Truthy(get(deployment_config, "useSpecificNodeGroup", False))
    THEN AffinityBlock(get(deployment_config, "nodeGroup", Str(<<"cmo-nodegroup">>)).text)
    ELSE <<>>

\* the replace calls of lines 250-261, one after the other
RECURSIVE ReplaceInTurn(_, _, _)
ReplaceInTurn(manifest, values, i) ==
    IF i > Len(values) THEN manifest
    ELSE ReplaceInTurn(replace(manifest, Token(Placeholders[i]), values[i].text), values, i + 1)

\* generate_k8s_manifest on the loaded template; replace raises TypeError
\* when its second argument is not a str
generate_k8s_manifest(template, pipeline_name, ecr_uri, deployment_config) ==
    LET values == Substitutions(pipeline_name, ecr_uri, deployment_config)
    IN  IF \E i \in 1..Len(values) : values[i].type # "str"
        THEN [raised |-> "TypeError", manifest |-> <<>>]
        ELSE [raised |-> "none",
              manifest |-> replace(ReplaceInTurn(template, values, 1),
                                   Token("node_affinity_section"),
                                   NodeAffinitySection(deployment_config))]

NoLoad == [source |-> "none", template |-> <<>>]

NoManifest == [raised |-> "none", manifest |-> <<>>]

\* `again` holds a second call with the arguments of the first
IdleGen ==
    [pc |-> "idle", pipeline_name |-> <<>>, ecr_uri |-> <<>>, deployment_config |-> EmptyConfig,
     loaded |-> NoLoad, result |-> NoManifest,
     loaded_again |-> NoLoad, again |-> NoManifest]

(***************************************************************************)
(* The settings merge.  A dict is the set of its <<key path, value>>        *)
(* entries, a value being a scalar or "{}" for an empty dict; the empty     *)
(* set is the empty dict at top level.                                       *)
(***************************************************************************)
Keys(dict) == {e[1][1] : e \in dict}

\* isinstance(dict[key], dict)
IsDict(dict, key) ==
    /\ key \in Keys(dict)
    /\ \A e \in dict : e[1] = <<key>> => e[2] = "{}"

\* dict[key], when it is a dict
At(dict, key) ==
    {<<Tail(e[1]), e[2]>> : e \in {x \in dict : x[1][1] = key /\ Len(x[1]) > 1}}

\* the entries of {key: value}, value a dict
Under(key, value) ==
    IF value = {} THEN {<<(<<key>>), "{}">>}
    ELSE {<<(<<key>>) \o e[1], e[2]>> : e \in value}

\* deep_merge(target, source), lines 1326-1333; the value is target afterwards
RECURSIVE deep_merge(_, _)
deep_merge(target, source) ==
    {e \in target : e[1][1] \notin Keys(source)}
    \cup UNION {IF IsDict(target, key) /\ IsDict(source, key)
                THEN Under(key, deep_merge(At(target, key), At(source, key)))
                ELSE {e \in source : e[1][1] = key} : key \in Keys(source)}

\* copy.deepcopy
deepcopy(value) == value

\* merge_with_defaults; `defaults` is the caller's dict after the call
merge_with_defaults(settings, defaults) ==
    LET result == deepcopy(defaults)
    IN  [result |-> deep_merge(result, settings), defaults |-> defaults]

\* part of get_default_pipeline_settings
DefaultSettings ==
    {<<(<<"aws", "region">>), "us-east-1">>,
     <<(<<"codebuild", "serviceRole">>), "codebuild-service-role">>,
     <<(<<"codebuild", "subnets">>), "[]">>}

IdleSettings ==
    [pc |-> "idle", stored |-> NoSettings, settings |-> {}, defaults |-> DefaultSettings,
     merged |-> {}, again |-> {}]

InitUtil ==
    /\ manifest_template = NoTemplates
    /\ gen = IdleGen
    /\ stg = IdleSettings
    /\ peer = IdleCreate
    /\ chk = IdleCheck

(***************************************************************************)
(* Pure helpers of LockManager.                                              *)
(***************************************************************************)
\* lock_expiry = lock_info['acquired_at'] + timedelta(minutes=self.lock_timeout_minutes)
LockExpiry(info) == info.acquired_at + lock_timeout_minutes

ExpiredInclusive(info, t) == t >= LockExpiry(info)

ExpiredByActivity(info, t) == t > info.last_activity + lock_timeout_minutes

\* if current_time > lock_expiry
Expired(info, t) == t > LockExpiry(info)

MutexIgnored == TRUE

\* `with self._lock:` can be entered only while no thread is inside
MutexFree == mutex = NoThread

\* the entry acquire_lock overwrites at lines 61-65 is the caller's own
SameHolder(info, u) == info # NoLock /\ info.user_id = u

ConflictIgnoringHolder(info, u, force) == ~force

\* elif not force and lock_info['user_id'] != user_id
AcquireConflict(info, u, force) == ~force /\ info.user_id # u

NewLock(u, t) == [user_id |-> u, acquired_at |-> t, last_activity |-> t]

AcquireFailure(info) ==
    [success |-> FALSE, locked |-> TRUE, locked_by |-> info.user_id,
     locked_at |-> info.acquired_at, expires_at |-> LockExpiry(info),
     message |-> <<"Pipeline is currently being edited by", info.user_id>>]

AcquireSuccess(u, t) ==
    [success |-> TRUE, locked |-> TRUE, locked_by |-> u, locked_at |-> t,
     expires_at |-> t + lock_timeout_minutes,
     message |-> <<"Lock acquired successfully">>]

LockInfoView(info) ==
    [locked |-> TRUE, locked_by |-> info.user_id, locked_at |-> info.acquired_at,
     expires_at |-> LockExpiry(info)]

Ready(t) == call[t].pc \in {"idle", "done"}

Begin(t, op, p, u, force) ==
    [IdleCall EXCEPT !.pc = "called", !.op = op, !.p = p, !.u = u, !.force = force]

Done(c, ret, http, post) ==
    [c EXCEPT !.pc = "done", !.ret = ret, !.http = http, !.post = post]

(***************************************************************************)
(* The clock.                                                                *)
(***************************************************************************)
Tick ==
    /\ now < MaxTime
    /\ now' = now + 1
    /\ UNCHANGED <<locks, hold_start, first_hold, mutex, call>>
    /\ UNCHANGED appVars

(***************************************************************************)
(* acquire_pipeline_lock -> LockManager.acquire_lock.  The body runs inside  *)
(* `with self._lock`; it is split where it reads the table (lines 38-58)     *)
(* and where it writes the entry (lines 60-74).                              *)
(***************************************************************************)
CallAcquire(t, p, u, force) ==
    /\ Ready(t)
    /\ call' = [call EXCEPT ![t] = Begin(t, "acquire", p, u, force)]
    /\ UNCHANGED <<locks, hold_start, first_hold, now, mutex>>
    /\ UNCHANGED appVars

AcquireEnter(t) ==
    /\ call[t].pc = "called"
    /\ call[t].op = "acquire"
    /\ MutexFree
    /\ mutex' = t
    /\ call' = [call EXCEPT ![t].pc = "check", ![t].at = now, ![t].pre = locks,
                            ![t].orig = hold_start[call[t].p]]
    /\ UNCHANGED <<locks, hold_start, first_hold, now>>
    /\ UNCHANGED appVars

AcquireCheck(t) ==
    LET c == call[t]
        info == locks[c.p]
    IN  /\ c.pc = "check"
        /\ IF info # NoLock /\ Expired(info, c.at)
           THEN /\ locks' = [locks EXCEPT ![c.p] = NoLock]
                /\ hold_start' = [hold_start EXCEPT ![c.p] = NoTime]
                /\ first_hold' = [first_hold EXCEPT ![c.p] = NoTime]
                /\ call' = [call EXCEPT ![t].pc = "write"]
                /\ UNCHANGED mutex
           ELSE IF info # NoLock /\ AcquireConflict(info, c.u, c.force)
           THEN /\ call' = [call EXCEPT ![t] = Done(c, AcquireFailure(info), 409, locks)]
                /\ mutex' = NoThread
                /\ UNCHANGED <<locks, hold_start, first_hold>>
           ELSE /\ call' = [call EXCEPT ![t].pc = "write"]
                /\ UNCHANGED <<locks, hold_start, first_hold, mutex>>
        /\ UNCHANGED now
        /\ UNCHANGED appVars

AcquireWrite(t) ==
    LET c == call[t]
    IN  /\ c.pc = "write"
        /\ locks' = [locks EXCEPT ![c.p] = NewLock(c.u, c.at)]
        /\ hold_start' = [hold_start EXCEPT ![c.p] = c.at]
        /\ first_hold' = [first_hold EXCEPT
                              ![c.p] = IF SameHolder(locks[c.p], c.u) THEN @ ELSE c.at]
        /\ call' = [call EXCEPT ![t] = Done(c, AcquireSuccess(c.u, c.at), 200, locks')]
        /\ mutex' = NoThread
        /\ UNCHANGED now
        /\ UNCHANGED appVars

(***************************************************************************)
(* LockManager.release_lock(pipeline_name, user_id), called directly.        *)
(***************************************************************************)
ReleaseKeepsEntry(tbl, p) == tbl

\* del self.locks[pipeline_name]
RemoveEntry(tbl, p) == [tbl EXCEPT ![p] = NoLock]

ReleaseOutcome(tbl, p, u) ==
    IF tbl[p] = NoLock
    THEN [table |-> tbl,
          ret |-> [success |-> TRUE, message |-> <<"Pipeline was not locked">>]]
    ELSE IF tbl[p].user_id # u
    THEN [table |-> tbl,
          ret |-> [success |-> FALSE,
                   message |-> <<"Cannot release lock held by", tbl[p].user_id>>]]
    ELSE [table |-> RemoveEntry(tbl, p),
          ret |-> [success |-> TRUE, message |-> <<"Lock released successfully">>]]

ReleaseLock(t, p, u) ==
    LET out == ReleaseOutcome(locks, p, u)
        c == [Begin(t, "release", p, u, FALSE) EXCEPT
                 !.at = now, !.pre = locks, !.orig = hold_start[p]]
    IN  /\ Ready(t)
        /\ MutexFree
        /\ locks' = out.table
        /\ hold_start' = [hold_start EXCEPT
                              ![p] = IF out.table[p] = NoLock THEN NoTime ELSE @]
        /\ first_hold' = [first_hold EXCEPT
                              ![p] = IF out.table[p] = NoLock THEN NoTime ELSE @]
        /\ call' = [call EXCEPT ![t] = Done(c, out.ret, 0, out.table)]
        /\ UNCHANGED <<now, mutex>>
        /\ UNCHANGED appVars

(***************************************************************************)
(* The release routes.  Both pass a third argument `force` to release_lock,  *)
(* whose signature takes pipeline_name and user_id only: Python raises       *)
(* TypeError before the body runs and the route's except clause answers 500. *)
(***************************************************************************)
release_lock_params == <<"pipeline_name", "user_id">>

\* Python binds a call when the positional arguments fit the parameters and
\* every keyword names a parameter that no positional argument has taken.
CallBinds(params, positional, keywords) ==
    /\ positional <= Len(params)
    /\ \A k \in keywords :
           \E i \in (positional + 1)..Len(params) : params[i] = k

RouteRelease(t, op, p, u, force, positional, keywords) ==
    LET c == [Begin(t, op, p, u, force) EXCEPT
                 !.at = now, !.pre = locks, !.orig = hold_start[p]]
        out == ReleaseOutcome(locks, p, u)
    IN  /\ Ready(t)
        /\ IF CallBinds(release_lock_params, positional, keywords)
           THEN /\ MutexFree
                /\ locks' = out.table
                /\ hold_start' = [hold_start EXCEPT
                                      ![p] = IF out.table[p] = NoLock THEN NoTime ELSE @]
                /\ first_hold' = [first_hold EXCEPT
                                      ![p] = IF out.table[p] = NoLock THEN NoTime ELSE @]
                /\ call' = [call EXCEPT ![t] = Done(c, out.ret, 200, out.table)]
           ELSE /\ call' = [call EXCEPT ![t] =
                               Done(c, [success |-> FALSE, error |-> "TypeError"], 500, locks)]
                /\ UNCHANGED <<locks, hold_start, first_hold>>
        /\ UNCHANGED <<now, mutex>>
        /\ UNCHANGED appVars

\* result = lock_manager.release_lock(pipeline_name, user_id, force)
release_pipeline_lock(t, p, u, force) ==
    RouteRelease(t, "route_release", p, u, force, 3, {})

\* result = lock_manager.release_lock(pipeline_name, user_id, force=True)
force_release_pipeline_lock(t, p, u) ==
    RouteRelease(t, "route_force_release", p, u, TRUE, 2, {"force"})

(***************************************************************************)
(* refresh_pipeline_lock -> LockManager.refresh_lock.                        *)
(***************************************************************************)
RefreshRestartsLock(info, t) == [info EXCEPT !.last_activity = t, !.acquired_at = t]

\* lock_info['last_activity'] = datetime.now()
RefreshEntry(info, t) == [info EXCEPT !.last_activity = t]

RefreshOutcome(tbl, p, u, t) ==
    IF tbl[p] = NoLock
    THEN [table |-> tbl,
          ret |-> [success |-> FALSE, message |-> <<"Pipeline is not locked">>]]
    ELSE IF tbl[p].user_id # u
    THEN [table |-> tbl,
          ret |-> [success |-> FALSE,
                   message |-> <<"Cannot refresh lock held by", tbl[p].user_id>>]]
    ELSE [table |-> [tbl EXCEPT ![p] = RefreshEntry(tbl[p], t)],
          ret |-> [success |-> TRUE, message |-> <<"Lock refreshed successfully">>]]

RefreshLock(t, p, u) ==
    LET out == RefreshOutcome(locks, p, u, now)
        c == [Begin(t, "refresh", p, u, FALSE) EXCEPT
                 !.at = now, !.pre = locks, !.orig = hold_start[p]]
    IN  /\ Ready(t)
        /\ MutexFree
        /\ locks' = out.table
        /\ call' = [call EXCEPT ![t] =
                        Done(c, out.ret, IF out.ret.success THEN 200 ELSE 403, out.table)]
        /\ UNCHANGED <<hold_start, first_hold, now, mutex>>
        /\ UNCHANGED appVars

(***************************************************************************)
(* get_pipeline_lock_status -> LockManager.get_lock_status.                  *)
(***************************************************************************)
StatusOutcome(tbl, p, t) ==
    IF tbl[p] = NoLock
    THEN [table |-> tbl, ret |-> None]
    ELSE IF Expired(tbl[p], t)
    THEN [table |-> RemoveEntry(tbl, p), ret |-> None]
    ELSE [table |-> tbl, ret |-> LockInfoView(tbl[p])]

GetLockStatus(t, p) ==
    LET out == StatusOutcome(locks, p, now)
        c == [Begin(t, "status", p, NoUser, FALSE) EXCEPT
                 !.at = now, !.pre = locks, !.orig = hold_start[p]]
    IN  /\ Ready(t)
        /\ MutexFree
        /\ locks' = out.table
        /\ hold_start' = [hold_start EXCEPT
                              ![p] = IF out.table[p] = NoLock THEN NoTime ELSE @]
        /\ first_hold' = [first_hold EXCEPT
                              ![p] = IF out.table[p] = NoLock THEN NoTime ELSE @]
        /\ call' = [call EXCEPT ![t] = Done(c, out.ret, 200, out.table)]
        /\ UNCHANGED <<now, mutex>>
        /\ UNCHANGED appVars

(***************************************************************************)
(* LockManager.get_all_locks (list_pipelines, get_pipelines_lock_status)     *)
(* and the background sweep _cleanup_expired_locks.                          *)
(***************************************************************************)
ExpiredKeys(tbl, t) == {p \in Pipelines : tbl[p] # NoLock /\ Expired(tbl[p], t)}

LiveKeys(tbl, t) == {p \in Pipelines : tbl[p] # NoLock /\ ~Expired(tbl[p], t)}

Sweep(tbl, t) == [p \in Pipelines |-> IF p \in ExpiredKeys(tbl, t) THEN NoLock ELSE tbl[p]]

AllLocksView(tbl, t) ==
    [p \in LiveKeys(tbl, t) |->
        [locked_by |-> tbl[p].user_id, locked_at |-> tbl[p].acquired_at,
         expires_at |-> LockExpiry(tbl[p])]]

GetAllLocks(t) ==
    LET c == [Begin(t, "all", "none", NoUser, FALSE) EXCEPT !.at = now, !.pre = locks]
    IN  /\ Ready(t)
        /\ MutexFree
        /\ locks' = Sweep(locks, now)
        /\ hold_start' = [p \in Pipelines |->
                              IF locks'[p] = NoLock THEN NoTime ELSE hold_start[p]]
        /\ first_hold' = [p \in Pipelines |->
                              IF locks'[p] = NoLock THEN NoTime ELSE first_hold[p]]
        /\ call' = [call EXCEPT ![t] = Done(c, AllLocksView(locks, now), 200, locks')]
        /\ UNCHANGED <<now, mutex>>
        /\ UNCHANGED appVars

CleanupExpiredLocks ==
    /\ MutexFree
    /\ ExpiredKeys(locks, now) # {}
    /\ locks' = Sweep(locks, now)
    /\ hold_start' = [p \in Pipelines |->
                          IF locks'[p] = NoLock THEN NoTime ELSE hold_start[p]]
    /\ first_hold' = [p \in Pipelines |->
                          IF locks'[p] = NoLock THEN NoTime ELSE first_hold[p]]
    /\ UNCHANGED <<now, mutex, call>>
    /\ UNCHANGED appVars

(***************************************************************************)
(* File paths of the uploads (upload_appsettings_to_codecommit,              *)
(* upload_manifest_to_codecommit, upload_scaling_manifest_to_codecommit).    *)
(***************************************************************************)
\* file_path = f"{pipeline_name}/appsettings.json"
AppsettingsPath(p) == <<p, "/", "appsettings.json">>

\* file_path = f"{pipeline_name}/{pipeline_name}.yml"
ManifestPath(p) == <<p, "/", p, ".yml">>

\* file_path = f"{pipeline_name}/{pipeline_name}-{scaling_type}.yml"
ScalingPath(p, type) == <<p, "/", p, "-", type, ".yml">>

\* scaling_type = scaling_config.get('type', 'hpa'): the part "type=..." of a
\* request's object is the 'type' key of its scalingConfig
scaling_type(cfg) ==
    IF "type=kafka" \in cfg THEN "kafka"
    ELSE IF "type=keda" \in cfg THEN "keda"
    ELSE "hpa"

(***************************************************************************)
(* update_pipeline.  A request names the pipeline, the user and the parts    *)
(* its `pipeline` object carries: "branchName" (plain fields),               *)
(* "appsettings" (appsettingsContent and an APPSETTINGS_REPO variable),      *)
(* "deployment" (deploymentConfig and a MANIFEST_REPO variable), "scaling"   *)
(* (scalingConfig, type hpa).  An empty object is falsy, like a missing one. *)
(***************************************************************************)
UpdateConfigs ==
    {{}, {"branchName"}, {"appsettings"}, {"deployment"}, {"scaling"},
     {"deployment", "scaling"}, {"appsettings", "deployment", "scaling"}}

RefusedWhenLocked(lock_status, u) == lock_status # None

\* if lock_status and lock_status['locked_by'] != user_id
UpdateRefused(lock_status, u) == lock_status # None /\ lock_status.locked_by # u

UpdateBegin(p, u, cfg) ==
    LET out == StatusOutcome(locks, p, now)
        req == [IdleUpdate EXCEPT !.p = p, !.u = u, !.cfg = cfg, !.at = now,
                                  !.entry = locks[p]]
    IN  /\ upd.pc = "idle"
        /\ IF cfg = {}
           THEN /\ upd' = [req EXCEPT !.pc = "responded", !.http = 400]
                /\ UNCHANGED <<locks, hold_start, first_hold>>
           ELSE /\ MutexFree
                /\ locks' = out.table
                /\ hold_start' = [hold_start EXCEPT
                                      ![p] = IF out.table[p] = NoLock THEN NoTime ELSE @]
                /\ first_hold' = [first_hold EXCEPT
                                      ![p] = IF out.table[p] = NoLock THEN NoTime ELSE @]
                /\ upd' = IF UpdateRefused(out.ret, u)
                          THEN [req EXCEPT !.pc = "responded", !.http = 409]
                          ELSE [req EXCEPT !.pc = "appsettings"]
        /\ UNCHANGED <<now, mutex, call, files, meta>>
        /\ UNCHANGED <<createVars, del, save_req, utilVars>>

\* One upload of the request: the call is made when `wanted`; it may fail, and
\* the handler swallows the exception.
UpdateUpload(pc, next, wanted, path, ok) ==
    /\ upd.pc = pc
    /\ IF wanted
       THEN /\ files' = IF ok THEN files \cup {path} ELSE files
            /\ upd' = [upd EXCEPT !.pc = next, !.uploaded = @ \cup {path}]
       ELSE /\ ok
            /\ files' = files
            /\ upd' = [upd EXCEPT !.pc = next]
    /\ UNCHANGED <<lockVars, meta>>
    /\ UNCHANGED <<createVars, del, save_req, utilVars>>

UpdateAppsettings(ok) ==
    UpdateUpload("appsettings", "manifest", "appsettings" \in upd.cfg,
                 AppsettingsPath(upd.p), ok)

UpdateManifest(ok) ==
    UpdateUpload("manifest", "scaling", "deployment" \in upd.cfg,
                 ManifestPath(upd.p), ok)

UpdateScaling(ok) ==
    UpdateUpload("scaling", "load", {"scaling", "deployment"} \subseteq upd.cfg,
                 ScalingPath(upd.p, scaling_type(upd.cfg)), ok)

\* metadata = load_pipeline_metadata(): every item of the table, the settings
\* item included, or none when the scan fails
UpdateLoadMetadata(ok) ==
    /\ upd.pc = "load"
    /\ upd' = [upd EXCEPT !.pc = "save", !.loaded = IF ok THEN meta ELSE EmptyMeta,
                          !.reserved = IF ok THEN stg.stored ELSE NoSettings]
    /\ UNCHANGED <<lockVars, files, meta>>
    /\ UNCHANGED <<createVars, del, save_req, utilVars>>

\* save_pipeline for each item of a loaded list: the settings item, when the
\* list holds it, is put back as it was loaded
PutReserved(s, reserved) == IF reserved.exists THEN [s EXCEPT !.stored = reserved] ELSE s

\* pipelines[i].update({... 'lastUpdated': now}); save_pipeline_metadata(metadata)
\* puts back every loaded item
UpdateSaveMetadata ==
    /\ upd.pc = "save"
    /\ IF upd.loaded[upd.p] # NoRecord
       THEN /\ meta' = [q \in Pipelines |->
                           IF upd.loaded[q] = NoRecord THEN meta[q]
                           ELSE IF q = upd.p
                           THEN [upd.loaded[q] EXCEPT !.lastUpdated = now, !.editor = upd.u]
                           ELSE upd.loaded[q]]
            /\ stg' = PutReserved(stg, upd.reserved)
            /\ upd' = [upd EXCEPT !.pc = "responded", !.http = 200, !.wrote = TRUE]
       ELSE /\ meta' = meta
            /\ stg' = stg
            /\ upd' = [upd EXCEPT !.pc = "responded", !.http = 200]
    /\ UNCHANGED <<lockVars, files>>
    /\ UNCHANGED <<createVars, del, save_req, manifest_template, gen, peer, chk>>

(***************************************************************************)
(* create_pipelines: name validation (lines 537-559).  A name is an atom of  *)
(* the model; Spelling gives its characters.                                 *)
(***************************************************************************)
Newline == "\n"

Spelling(name) ==
    CASE name = "svc-api" -> <<"s", "v", "c", "-", "a", "p", "i">>
      [] name = "svc-app" -> <<"s", "v", "c", "-", "a", "p", "p">>
      [] name = "ab" -> <<"a", "b">>
      [] name = "abc" -> <<"a", "b", "c">>
      [] name = "a-1" -> <<"a", "-", "1">>
      [] name = "1ab" -> <<"1", "a", "b">>
      [] name = "SV" -> <<"S", "V">>
      [] name = "Svc" -> <<"S", "v", "c">>
      [] name = "svC" -> <<"s", "v", "C">>
      [] name = "-svc" -> <<"-", "s", "v", "c">>
      [] name = "svc_a" -> <<"s", "v", "c", "_", "a">>
      [] name = "svc a" -> <<"s", "v", "c", " ", "a">>
      [] name = "svc\n" -> <<"s", "v", "c", Newline>>
      [] name = "a x 60" -> [i \in 1..60 |-> "a"]
      [] name = "a x 61" -> [i \in 1..61 |-> "a"]
      [] OTHER -> <<>>

LowerLetters == {"a", "b", "c", "i", "p", "s", "v"}

UpperLetters == {"A", "B", "C", "I", "P", "S", "V"}

Digits == {"0", "1"}

MinNameLength == 3

MaxNameLength == 60

\* [a-z0-9][a-z0-9-]*
InNameLanguage(chars) ==
    /\ Len(chars) >= 1
    /\ chars[1] \in LowerLetters \cup Digits
    /\ \A i \in 2..Len(chars) : chars[i] \in LowerLetters \cup Digits \cup {"-"}

\* re.match(r'^[a-z0-9][a-z0-9-]*$', pipeline_name): without re.MULTILINE `$`
\* matches at the end of the string and also just before a newline that ends it
MatchesNamePattern(chars) ==
    \/ InNameLanguage(chars)
    \/ /\ Len(chars) >= 1
       /\ chars[Len(chars)] = Newline
       /\ InNameLanguage(SubSeq(chars, 1, Len(chars) - 1))

Pick(cond, msg) == IF cond THEN <<msg>> ELSE <<>>

validation_errors(name) ==
    LET chars == Spelling(name)
    IN  IF Len(chars) = 0
        THEN <<"Pipeline name is required">>
        ELSE Pick(Len(chars) < MinNameLength,
                  "Pipeline name must be at least 3 characters")
             \o Pick(Len(chars) > MaxNameLength,
                     "Pipeline name must not exceed 60 characters")
             \o Pick(\E i \in 1..Len(chars) : chars[i] \in UpperLetters,
                     "Pipeline name must be lowercase")
             \o Pick(~MatchesNamePattern(chars),
                     "Pipeline name must start with a letter or number and contain only lowercase letters, numbers, and hyphens")

(***************************************************************************)
(* create_pipelines: one step per remote call.  An item of the batch is      *)
(* [name, cfg]; cfg holds "appsettings" (appsettingsContent and an           *)
(* APPSETTINGS_REPO variable), "deployment" (deploymentConfig and a          *)
(* MANIFEST_REPO variable) and "scaling" (scalingConfig, type hpa).  The     *)
(* CodeBuild project of a pipeline is keyed by the pipeline's name.          *)
(***************************************************************************)
CurrentItem == cr.batch[cr.idx]

CurrentName == CurrentItem.name

Traced(c, what, outcome) == [c EXCEPT !.trace = Append(@, <<what, outcome>>)]

\* created_pipelines.append(...); the for loop goes on with the next item
FinishItem(c, result) ==
    [c EXCEPT !.created_pipelines = Append(@, result),
              !.pc = IF c.idx < Len(c.batch) THEN "next_item" ELSE "classify"]

CreateBegin(batch) ==
    /\ cr.pc = "idle"
    /\ cr' = [IdleCreate EXCEPT !.pc = IF batch = <<>> THEN "classify" ELSE "next_item",
                                !.batch = batch, !.earlier = cr.earlier]
    /\ UNCHANGED <<lockVars, upd, del, save_req, utilVars, files, meta, remote>>

ValidationFailure(name) ==
    [name |-> name, status |-> "absent", success |-> FALSE,
     error |-> <<"Pipeline name validation failed", validation_errors(name)>>]

\* pipeline_config['pipelineName'], ['repositoryName'], ['branchName'],
\* ['buildspecPath'], ['computeType']
RequiredFields ==
    {"pipelineName", "repositoryName", "branchName", "buildspecPath", "computeType"}

\* a missing key raises KeyError at lines 528-534, outside the item's try: the
\* handler of line 1014 answers 500 for the whole request
MissingField(c, item) ==
    [c EXCEPT !.pc = "responded", !.http = 500, !.success = FALSE,
              !.route_error = "KeyError"]

\* lines 527-579: the loop takes the next item, reads its fields, validates
\* its name and resets the ledger
ItemStart ==
    LET c == [cr EXCEPT !.idx = @ + 1, !.found = <<>>, !.ledger = EmptyLedger,
                        !.bucket_name = NoBucket, !.trace = <<>>, !.error = "none",
                        !.rollback_errors = <<>>, !.at_start = remote]
        item == c.batch[c.idx]
        name == item.name
    IN  /\ cr.pc = "next_item"
        /\ cr' = IF item.missing \cap RequiredFields # {}
                 THEN MissingField(c, item)
                 ELSE IF validation_errors(name) # <<>>
                 THEN FinishItem(c, ValidationFailure(name))
                 ELSE [c EXCEPT !.pc = "chk_pipeline"]
        /\ UNCHANGED <<lockVars, upd, del, save_req, utilVars, files, meta, remote>>

\* except Exception as pipeline_error: rollback starts with the first resource
\* the ledger names
RollbackOrder == <<"rb_pipeline", "rb_project", "rb_repo", "rb_bucket">>

LedgerField(step) ==
    CASE step = "rb_pipeline" -> "codepipeline"
      [] step = "rb_project" -> "codebuild_project"
      [] step = "rb_repo" -> "ecr_repository"
      [] step = "rb_bucket" -> "s3_bucket"

\* if created_resources.get(...)
Ledgered(ledger, step) ==
    IF step = "rb_bucket" THEN ledger.s3_bucket # NoBucket
    ELSE ledger[LedgerField(step)] # NoName

RollbackEverything(ledger, k) ==
    IF k > Len(RollbackOrder) THEN "rb_done" ELSE RollbackOrder[k]

RollbackFrom(ledger, k) ==
    LET todo == {i \in k..Len(RollbackOrder) : Ledgered(ledger, RollbackOrder[i])}
    IN  IF todo = {} THEN "rb_done"
        ELSE RollbackOrder[CHOOSE i \in todo : \A j \in todo : i <= j]

ErrorResult(c) ==
    [name |-> c.batch[c.idx].name, status |-> "error", success |-> "absent",
     error |-> [creation_error |-> c.error, rollback_errors |-> c.rollback_errors]]

RollbackStopsOnError(c, k) ==
    IF RollbackFrom(c.ledger, k) = "rb_done" \/ c.rollback_errors # <<>>
    THEN FinishItem(c, ErrorResult(c))
    ELSE [c EXCEPT !.pc = RollbackFrom(c.ledger, k)]

AfterRollbackStep(c, k) ==
    IF RollbackFrom(c.ledger, k) = "rb_done"
    THEN FinishItem(c, ErrorResult(c))
    ELSE [c EXCEPT !.pc = RollbackFrom(c.ledger, k)]

Raise(c, err) == AfterRollbackStep([c EXCEPT !.error = err], 1)

(***************************************************************************)
(* create_pipelines: the order of the steps of one item.                     *)
(***************************************************************************)
UploadOrder == <<"up_appsettings", "up_manifest", "up_scaling">>

UploadWanted(step, cfg) ==
    CASE step = "up_appsettings" -> "appsettings" \in cfg
      [] step = "up_manifest" -> "deployment" \in cfg
      [] step = "up_scaling" -> {"scaling", "deployment"} \subseteq cfg

UploadFrom(cfg, k) ==
    LET todo == {i \in k..Len(UploadOrder) : UploadWanted(UploadOrder[i], cfg)}
    IN  IF todo = {} THEN "save_meta"
        ELSE UploadOrder[CHOOSE i \in todo : \A j \in todo : i <= j]

ProjectBeforeRepository == <<"mk_project", "mk_repo", "mk_bucket", "prepare", "mk_pipeline">>

\* lines 655-861: registry repository, artifact bucket, build settings,
\* build project, pipeline
CreateOrder == <<"mk_repo", "mk_bucket", "prepare", "mk_project", "mk_pipeline">>

StepAfter(step, cfg) ==
    LET i == CHOOSE k \in 1..Len(CreateOrder) : CreateOrder[k] = step
    IN  IF i < Len(CreateOrder) THEN CreateOrder[i + 1] ELSE UploadFrom(cfg, 1)

(***************************************************************************)
(* Pre-flight checks (lines 584-651).  A query answers from the remote       *)
(* state or fails; `out` is "answer" or "error".                             *)
(***************************************************************************)
Outcomes == {"answer", "error"}

Seen(exists) == IF exists THEN "found" ELSE "absent"

Noted(c, exists, what) == IF exists THEN [c EXCEPT !.found = Append(@, what)] ELSE c

\* codepipeline.get_pipeline: only PipelineNotFoundException is caught here
CheckPipeline(out) ==
    LET name == CurrentName
        exists == name \in remote.codepipeline
    IN  /\ cr.pc = "chk_pipeline"
        /\ out \in Outcomes
        /\ cr' = IF out = "error"
                 THEN Raise(Traced(cr, "get_pipeline", "error"), "get_pipeline failed")
                 ELSE [Noted(Traced(cr, "get_pipeline", Seen(exists)), exists,
                             <<"CodePipeline", name>>)
                          EXCEPT !.pc = "chk_project"]
        /\ UNCHANGED <<lockVars, upd, del, save_req, utilVars, files, meta, remote>>

\* codebuild.batch_get_projects: a bare except passes over any failure
CheckProject(out) ==
    LET name == CurrentName
        exists == name \in remote.codebuild
    IN  /\ cr.pc = "chk_project"
        /\ out \in Outcomes
        /\ cr' = IF out = "error"
                 THEN [Traced(cr, "batch_get_projects", "error") EXCEPT !.pc = "chk_repo"]
                 ELSE [Noted(Traced(cr, "batch_get_projects", Seen(exists)), exists,
                             <<"CodeBuild project", name>>)
                          EXCEPT !.pc = "chk_repo"]
        /\ UNCHANGED <<lockVars, upd, del, save_req, utilVars, files, meta, remote>>

\* ecr.describe_repositories: only RepositoryNotFoundException is caught here
CheckRepository(out) ==
    LET name == CurrentName
        exists == name \in remote.ecr
    IN  /\ cr.pc = "chk_repo"
        /\ out \in Outcomes
        /\ cr' = IF out = "error"
                 THEN Raise(Traced(cr, "describe_repositories", "error"),
                            "describe_repositories failed")
                 ELSE [Noted(Traced(cr, "describe_repositories", Seen(exists)), exists,
                             <<"ECR repository", name>>)
                          EXCEPT !.pc = "chk_manifest"]
        /\ UNCHANGED <<lockVars, upd, del, save_req, utilVars, files, meta, remote>>

\* codecommit.get_file of {name}/{name}.yml: a bare except passes over any failure
CheckManifest(out) ==
    LET name == CurrentName
        exists == ManifestPath(name) \in files
    IN  /\ cr.pc = "chk_manifest"
        /\ out \in Outcomes
        /\ cr' = IF out = "error"
                 THEN [Traced(cr, "get_file manifest", "error") EXCEPT !.pc = "chk_appsettings"]
                 ELSE [Noted(Traced(cr, "get_file manifest", Seen(exists)), exists,
                             <<"Manifest folder", name>>)
                          EXCEPT !.pc = "chk_appsettings"]
        /\ UNCHANGED <<lockVars, upd, del, save_req, utilVars, files, meta, remote>>

\* "The following resources already exist: " + ", ".join(existing_resources)
ConflictListing(found) == found

ConflictResult(name, found) ==
    [name |-> name, status |-> "absent", success |-> FALSE,
     error |-> <<"Cannot create pipeline, resources already exist", ConflictListing(found)>>]

RefusalSkipped(found) == FALSE

\* if existing_resources:
MustRefuse(found) == found # <<>>

\* codecommit.get_file of {name}/appsettings.json, then the decision of line 643
CheckAppsettings(out) ==
    LET name == CurrentName
        exists == AppsettingsPath(name) \in files
        c == IF out = "error"
             THEN Traced(cr, "get_file appsettings", "error")
             ELSE Noted(Traced(cr, "get_file appsettings", Seen(exists)), exists,
                        <<"Appsettings folder", name>>)
    IN  /\ cr.pc = "chk_appsettings"
        /\ out \in Outcomes
        /\ cr' = IF MustRefuse(c.found)
                 THEN FinishItem(c, ConflictResult(name, c.found))
                 ELSE [c EXCEPT !.pc = CreateOrder[1]]
        /\ UNCHANGED <<lockVars, upd, del, save_req, utilVars, files, meta, remote>>

(***************************************************************************)
(* Resource creation (lines 655-861).  `out` is "ok" or "error"; a create    *)
(* call on a name that exists answers with the service's already-exists      *)
(* exception.                                                                *)
(***************************************************************************)
Results == {"ok", "error"}

TruncatedLength == 6

Lowered(ch) ==
    CASE ch = "A" -> "a" [] ch = "B" -> "b" [] ch = "C" -> "c" [] ch = "I" -> "i"
      [] ch = "P" -> "p" [] ch = "S" -> "s" [] ch = "V" -> "v" [] OTHER -> ch

NotSpace(ch) == ch # " "

\* truncated_name = pipeline_name[:6].lower().replace('_', '-').replace(' ', '')
TruncatedName(name) ==
    LET chars == Spelling(name)
        head == SubSeq(chars, 1, IF Len(chars) < TruncatedLength THEN Len(chars)
                                 ELSE TruncatedLength)
        lowered == [i \in 1..Len(head) |-> IF Lowered(head[i]) = "_" THEN "-"
                                           ELSE Lowered(head[i])]
    IN  SelectSeq(lowered, NotSpace)

\* bucket_name = f"{truncated_name}-{timestamp}"
BucketName(name, t) == <<TruncatedName(name), t>>

\* ecr.create_repository
CreateRepository(out) ==
    LET name == CurrentName
    IN  /\ cr.pc = "mk_repo"
        /\ out \in Results
        /\ IF out = "error"
           THEN /\ cr' = Raise(Traced(cr, "create_repository", "error"),
                               "create_repository failed")
                /\ UNCHANGED remote
           ELSE IF name \in remote.ecr
           THEN /\ cr' = [Traced(cr, "create_repository", "exists") EXCEPT !.pc = StepAfter("mk_repo", {})]
                /\ UNCHANGED remote
           ELSE /\ cr' = [Traced(cr, "create_repository", "ok") EXCEPT
                              !.pc = StepAfter("mk_repo", {}), !.ledger.ecr_repository = name]
                /\ remote' = [remote EXCEPT !.ecr = @ \cup {name}]
        /\ UNCHANGED <<lockVars, upd, del, save_req, utilVars, files, meta>>

\* s3.create_bucket: any failure is raised again; creating a bucket the account
\* already owns fails, except in us-east-1 where the call succeeds
CreateBucket(out) ==
    LET name == CurrentName
        bucket == BucketName(name, now)
        c == [cr EXCEPT !.bucket_name = bucket]
    IN  /\ cr.pc = "mk_bucket"
        /\ out \in Results
        /\ IF out = "error"
           THEN /\ cr' = Raise(Traced(c, "create_bucket", "error"),
                               "Failed to create S3 bucket")
                /\ UNCHANGED remote
           ELSE /\ cr' = [Traced(c, "create_bucket", "ok") EXCEPT
                              !.pc = StepAfter("mk_bucket", {}), !.ledger.s3_bucket = bucket]
                /\ remote' = [remote EXCEPT !.s3 = @ \cup {bucket}]
        /\ UNCHANGED <<lockVars, upd, del, save_req, utilVars, files, meta>>

\* lines 690-759: codestar_connections.list_connections with the sts fallback,
\* the buildspec template file and the account id; a failure here is raised
PrepareBuild(out) ==
    /\ cr.pc = "prepare"
    /\ out \in Results
    /\ cr' = IF out = "error"
             THEN Raise(Traced(cr, "list_connections", "error"), "get_caller_identity failed")
             ELSE [Traced(cr, "list_connections", "ok") EXCEPT !.pc = StepAfter("prepare", {})]
    /\ UNCHANGED <<lockVars, upd, del, save_req, utilVars, files, meta, remote>>

\* create_project recording the project also when it was already there
CreateProjectRecordingExisting(out) ==
    LET name == CurrentName
    IN  /\ cr.pc = "mk_project"
        /\ out \in Results
        /\ IF out = "error"
           THEN /\ cr' = Raise(Traced(cr, "create_project", "error"), "create_project failed")
                /\ UNCHANGED remote
           ELSE IF name \in remote.codebuild
           THEN /\ cr' = [Traced(cr, "create_project", "exists") EXCEPT
                              !.pc = StepAfter("mk_project", {}), !.ledger.codebuild_project = name]
                /\ UNCHANGED remote
           ELSE /\ cr' = [Traced(cr, "create_project", "ok") EXCEPT
                              !.pc = StepAfter("mk_project", {}), !.ledger.codebuild_project = name]
                /\ remote' = [remote EXCEPT !.codebuild = @ \cup {name}]
        /\ UNCHANGED <<lockVars, upd, del, save_req, utilVars, files, meta>>

\* codebuild.create_project
CreateProject(out) ==
    LET name == CurrentName
    IN  /\ cr.pc = "mk_project"
        /\ out \in Results
        /\ IF out = "error"
           THEN /\ cr' = Raise(Traced(cr, "create_project", "error"), "create_project failed")
                /\ UNCHANGED remote
           ELSE IF name \in remote.codebuild
           THEN /\ cr' = [Traced(cr, "create_project", "exists") EXCEPT !.pc = StepAfter("mk_project", {})]
                /\ UNCHANGED remote
           ELSE /\ cr' = [Traced(cr, "create_project", "ok") EXCEPT
                              !.pc = StepAfter("mk_project", {}), !.ledger.codebuild_project = name]
                /\ remote' = [remote EXCEPT !.codebuild = @ \cup {name}]
        /\ UNCHANGED <<lockVars, upd, del, save_req, utilVars, files, meta>>

PipelineAnswers == Results \cup {"no_arn"}

\* codepipeline.create_pipeline with artifactStore location bucket_name;
\* "no_arn" is a response without the pipeline's
\* arn: like PipelineNameInUseException it leaves the arn to be built from the
\* account id
CreatePipeline(out) ==
    LET name == CurrentName
        next == IF out = "ok" THEN StepAfter("mk_pipeline", CurrentItem.cfg) ELSE "arn"
    IN  /\ cr.pc = "mk_pipeline"
        /\ out \in PipelineAnswers
        /\ IF out = "error"
           THEN /\ cr' = Raise(Traced(cr, "create_pipeline", "error"), "create_pipeline failed")
                /\ UNCHANGED remote
           ELSE IF name \in remote.codepipeline
           THEN /\ cr' = [Traced(cr, "create_pipeline", "exists") EXCEPT !.pc = "arn"]
                /\ UNCHANGED remote
           ELSE /\ cr' = [Traced(cr, "create_pipeline", "ok") EXCEPT
                              !.pc = next, !.ledger.codepipeline = name]
                /\ remote' = [remote EXCEPT !.codepipeline = @ \cup {name},
                                            !.store = @ \cup {<<name, cr.bucket_name>>}]
        /\ UNCHANGED <<lockVars, upd, del, save_req, utilVars, files, meta>>

\* lines 857 and 861: boto3.client('sts').get_caller_identity()['Account']
ResolveArn(out) ==
    /\ cr.pc = "arn"
    /\ out \in Results
    /\ cr' = IF out = "error"
             THEN Raise(Traced(cr, "get_caller_identity", "error"), "get_caller_identity failed")
             ELSE [Traced(cr, "get_caller_identity", "ok") EXCEPT
                       !.pc = StepAfter("mk_pipeline", CurrentItem.cfg)]
    /\ UNCHANGED <<lockVars, upd, del, save_req, utilVars, files, meta, remote>>

(***************************************************************************)
(* Uploads and the metadata record (lines 863-964): a failure is printed and *)
(* passed over.                                                              *)
(***************************************************************************)
UploadStepRaising(step, k, what, path, out) ==
    /\ cr.pc = step
    /\ out \in Results
    /\ IF out = "ok"
       THEN /\ files' = files \cup {path}
            /\ cr' = [Traced(cr, what, "ok") EXCEPT
                          !.pc = UploadFrom(CurrentItem.cfg, k + 1),
                          !.ledger.codecommit_files = Append(@, path)]
       ELSE /\ files' = files
            /\ cr' = Raise(Traced(cr, what, "error"), "upload failed")
    /\ UNCHANGED <<lockVars, upd, del, save_req, utilVars, meta, remote>>

UploadStep(step, k, what, path, out) ==
    /\ cr.pc = step
    /\ out \in Results
    /\ IF out = "ok"
       THEN /\ files' = files \cup {path}
            /\ cr' = [Traced(cr, what, "ok") EXCEPT
                          !.pc = UploadFrom(CurrentItem.cfg, k + 1),
                          !.ledger.codecommit_files = Append(@, path)]
       ELSE /\ files' = files
            /\ cr' = [Traced(cr, what, "error") EXCEPT
                          !.pc = UploadFrom(CurrentItem.cfg, k + 1)]
    /\ UNCHANGED <<lockVars, upd, del, save_req, utilVars, meta, remote>>

\* upload_appsettings_to_codecommit
UploadAppsettings(out) ==
    UploadStep("up_appsettings", 1, "upload appsettings", AppsettingsPath(CurrentName), out)

\* upload_manifest_to_codecommit
UploadManifest(out) ==
    UploadStep("up_manifest", 2, "upload manifest", ManifestPath(CurrentName), out)

\* upload_scaling_manifest_to_codecommit, scaling_config.get('type', 'hpa')
UploadScaling(out) ==
    UploadStep("up_scaling", 3, "upload scaling",
               ScalingPath(CurrentName, scaling_type(CurrentItem.cfg)), out)

\* created_pipelines.append({'pipelineName', 'pipelineArn', 'status': 'created', 's3Bucket'})
CreatedResult(c) ==
    [name |-> c.batch[c.idx].name, status |-> "created", success |-> "absent",
     error |-> "absent"]

\* the two clock readings of lines 947-948: the second is the first or later
Readings(t) == {u \in t..(t + 1) : u <= MaxTime}

\* DynamoDBStorage.save_pipeline: lastUpdated is read from the clock, then
\* every field of pipeline_data but 'name' is copied over the item, its
\* 'lastUpdated' and 'createdAt' included; createdAt is set to lastUpdated only
\* when pipeline_data carries none.  An absent field of pipeline_data is NoTime.
save_pipeline(pipeline_data, t) ==
    LET lastUpdated == IF pipeline_data.lastUpdated # NoTime
                       THEN pipeline_data.lastUpdated ELSE t
    IN  [createdAt |-> IF pipeline_data.createdAt # NoTime
                       THEN pipeline_data.createdAt ELSE lastUpdated,
         lastUpdated |-> lastUpdated,
         editor |-> pipeline_data.editor,
         s3Bucket |-> pipeline_data.s3Bucket,
         environmentVariables |-> pipeline_data.environmentVariables]

SaveMetadataRaising(out, later) ==
    /\ cr.pc = "save_meta"
    /\ out \in Results
    /\ later \in Readings(now)
    /\ now' = later
    /\ meta' = IF out = "ok"
               THEN [meta EXCEPT ![CurrentName] =
                         save_pipeline([createdAt |-> now, lastUpdated |-> later,
                                        editor |-> NoUser,
                                        s3Bucket |-> cr.bucket_name,
                                        environmentVariables |-> "list"], later)]
               ELSE meta
    /\ cr' = IF out = "ok"
             THEN FinishItem(Traced(cr, "save_pipeline", out),
                             CreatedResult(Traced(cr, "save_pipeline", out)))
             ELSE Raise(Traced(cr, "save_pipeline", out), "save_pipeline failed")
    /\ UNCHANGED <<locks, hold_start, first_hold, mutex, call, upd, del, save_req, utilVars, files, remote>>

\* pipeline_metadata = {..., 'createdAt': datetime.now(), 'lastUpdated':
\* datetime.now()}; save_pipeline_metadata(pipeline_metadata), then the item's
\* result
SaveMetadata(out, later) ==
    LET name == CurrentName
        c == Traced(cr, "save_pipeline", out)
        pipeline_metadata == [createdAt |-> now, lastUpdated |-> later, editor |-> NoUser,
                              s3Bucket |-> cr.bucket_name, environmentVariables |-> "list"]
    IN  /\ cr.pc = "save_meta"
        /\ out \in Results
        /\ later \in Readings(now)
        /\ now' = later
        /\ meta' = IF out = "ok"
                   THEN [meta EXCEPT ![name] = save_pipeline(pipeline_metadata, later)]
                   ELSE meta
        /\ cr' = FinishItem(c, CreatedResult(c))
        /\ UNCHANGED <<locks, hold_start, first_hold, mutex, call, upd, del, save_req, utilVars, files, remote>>

(***************************************************************************)
(* rollback_pipeline_resources (lines 375-446): each deletion is tried, a    *)
(* failure is added to rollback_errors.                                      *)
(***************************************************************************)
RollbackStep(step, k, what, out, after) ==
    /\ cr.pc = step
    /\ out \in Results
    /\ IF out = "ok"
       THEN /\ remote' = after
            /\ cr' = AfterRollbackStep(Traced(cr, what, "ok"), k + 1)
       ELSE /\ remote' = remote
            /\ cr' = AfterRollbackStep(
                         [Traced(cr, what, "error") EXCEPT
                              !.rollback_errors = Append(@, what)], k + 1)
    /\ UNCHANGED <<lockVars, upd, del, save_req, utilVars, files, meta>>

\* codepipeline.delete_pipeline
RollbackPipeline(out) ==
    RollbackStep("rb_pipeline", 1, "delete_pipeline", out,
                 [remote EXCEPT !.codepipeline = @ \ {cr.ledger.codepipeline},
                                !.store = {s \in @ : s[1] # cr.ledger.codepipeline}])

\* codebuild.delete_project
RollbackProject(out) ==
    RollbackStep("rb_project", 2, "delete_project", out,
                 [remote EXCEPT !.codebuild = @ \ {cr.ledger.codebuild_project}])

\* ecr.delete_repository(force=True)
RollbackRepository(out) ==
    RollbackStep("rb_repo", 3, "delete_repository", out,
                 [remote EXCEPT !.ecr = @ \ {cr.ledger.ecr_repository}])

\* the bucket is emptied, then s3_client.delete_bucket
RollbackBucket(out) ==
    RollbackStep("rb_bucket", 4, "delete_bucket", out,
                 [remote EXCEPT !.s3 = @ \ {cr.ledger.s3_bucket}])

(***************************************************************************)
(* The response of the batch (lines 986-1012).                               *)
(***************************************************************************)
WithStatus(results, status) == {i \in 1..Len(results) : results[i].status = status}

Classify ==
    LET failed_pipelines == WithStatus(cr.created_pipelines, "error")
        successful_pipelines == WithStatus(cr.created_pipelines, "created")
    IN  /\ cr.pc = "classify"
        /\ cr' = IF failed_pipelines # {} /\ successful_pipelines = {}
                 THEN [cr EXCEPT !.pc = "responded", !.http = 500, !.success = FALSE]
                 ELSE IF failed_pipelines # {}
                 THEN [cr EXCEPT !.pc = "responded", !.http = 207, !.success = FALSE]
                 ELSE [cr EXCEPT !.pc = "responded", !.http = 200, !.success = TRUE]
        /\ UNCHANGED <<lockVars, upd, del, save_req, utilVars, files, meta, remote>>

\* return jsonify(...): the request is over and the next one may be served;
\* `earlier` keeps the names this and earlier requests reported as created
CreateReturn ==
    /\ cr.pc = "responded"
    /\ cr' = [IdleCreate EXCEPT
                  !.earlier = cr.earlier \cup
                      {cr.created_pipelines[i].name :
                           i \in WithStatus(cr.created_pipelines, "created")}]
    /\ UNCHANGED <<lockVars, upd, del, save_req, utilVars, files, meta, remote>>

(***************************************************************************)
(* The metadata routes and the storage calls behind them.                    *)
(***************************************************************************)
\* no request is being served
Quiet ==
    /\ cr.pc = "idle"
    /\ upd.pc = "idle"
    /\ del.pc = "idle"
    /\ save_req.pc = "idle"

\* update_pipeline: return jsonify(...)
UpdateReturn ==
    /\ upd.pc = "responded"
    /\ upd' = IdleUpdate
    /\ UNCHANGED <<lockVars, files, meta, cr, remote, del, save_req, utilVars>>

\* the put_item calls of one save_pipeline_metadata: a record whose name is in
\* `failed` is not written (save_pipeline returns False)
PutAll(table, records, failed) ==
    [q \in Pipelines |->
        IF records[q] # NoRecord /\ q \notin failed
        THEN save_pipeline(records[q], now) ELSE table[q]]

\* POST /api/pipeline-metadata, lines 1633-1647: the request carries the
\* pipeline object or none; load_pipeline_metadata() returns every item of
\* the table, the settings item included, or none when the scan fails
PostLoad(p, given, ok) ==
    /\ save_req.pc = "idle"
    /\ save_req' = IF ~given
                   THEN [IdlePost EXCEPT !.pc = "responded", !.p = p, !.http = 400]
                   ELSE [IdlePost EXCEPT !.pc = "loaded", !.p = p,
                                         !.loaded = IF ok THEN meta ELSE EmptyMeta,
                                         !.reserved = IF ok THEN stg.stored ELSE NoSettings]
    /\ UNCHANGED <<lockVars, upd, del, utilVars, files, meta, cr, remote>>

\* lines 1654-1662: lastUpdated is read from the clock; createdAt is the
\* loaded record's, or lastUpdated when no record of that name was loaded
PostedRecord(existing, pipeline_data, t) ==
    [pipeline_data EXCEPT
        !.lastUpdated = t,
        !.createdAt = IF existing # NoRecord THEN existing.createdAt ELSE t]

\* lines 1649-1676: the record of the request replaces the loaded one and
\* save_pipeline_metadata puts back every record of the list
PostSave(pipeline_data, failed) ==
    LET p == save_req.p
        pipelines == [save_req.loaded EXCEPT
                         ![p] = PostedRecord(save_req.loaded[p], pipeline_data, now)]
        unsaved == {q \in failed : pipelines[q] # NoRecord}
    IN  /\ save_req.pc = "loaded"
        /\ failed \subseteq Pipelines
        /\ meta' = PutAll(meta, pipelines, failed)
        /\ stg' = PutReserved(stg, save_req.reserved)
        /\ save_req' = [save_req EXCEPT !.pc = "responded",
                                        !.http = IF unsaved = {} THEN 200 ELSE 500]
        /\ UNCHANGED <<lockVars, upd, del, manifest_template, gen, peer, chk, files, cr, remote>>

\* save_pipeline_metadata_endpoint: return jsonify(...)
PostReturn ==
    /\ save_req.pc = "responded"
    /\ save_req' = IdlePost
    /\ UNCHANGED <<lockVars, upd, del, utilVars, files, meta, cr, remote>>

\* storage.save_pipeline(pipeline_data) for the name p; put_item may fail
SavePipeline(p, pipeline_data, ok) ==
    /\ meta' = IF ok THEN [meta EXCEPT ![p] = save_pipeline(pipeline_data, now)] ELSE meta
    /\ UNCHANGED <<lockVars, upd, del, save_req, utilVars, files, cr, remote>>

(***************************************************************************)
(* delete_pipeline_resources (lines 1852-2153).  An entry of `successes` is  *)
(* the resource deleted; an entry of `errors` is <<mark, resource>>, where   *)
(* mark is "not found" (the entries marked as warnings) or "failed".         *)
(***************************************************************************)
Deleted(d, resource) == [d EXCEPT !.successes = Append(@, resource)]

NotFound(d, resource) == [d EXCEPT !.errors = Append(@, <<"not found", resource>>)]

Failure(d, resource) ==
    [d EXCEPT !.errors = Append(@, <<"failed", resource>>), !.faulty = TRUE]

\* lines 1855-1873: metadata = load_pipeline_metadata(), which returns no
\* record when the scan fails; pipeline_meta is the record of the name
DeleteBegin(p, ok) ==
    /\ del.pc = "idle"
    /\ del' = [IdleDelete EXCEPT
                   !.pc = "dl_pipeline", !.p = p,
                   !.pipeline_meta = IF ok THEN meta[p] ELSE NoRecord,
                   !.faulty = ~ok,
                   !.previous = del.previous, !.runs = del.runs + 1]
    /\ UNCHANGED <<lockVars, upd, cr, save_req, utilVars, files, meta, remote>>

\* one sub-deletion of a named resource: deleted, not found, or another error
DeleteNamed(step, next, resource, exists, out, after) ==
    /\ del.pc = step
    /\ out \in Results
    /\ IF out = "error"
       THEN /\ del' = [Failure(del, resource) EXCEPT !.pc = next]
            /\ remote' = remote
       ELSE IF exists
       THEN /\ del' = [Deleted(del, resource) EXCEPT !.pc = next]
            /\ remote' = after
       ELSE /\ del' = [NotFound(del, resource) EXCEPT !.pc = next]
            /\ remote' = remote
    /\ UNCHANGED <<lockVars, upd, cr, save_req, utilVars, files, meta>>

\* 1. codepipeline.delete_pipeline
DeleteCodePipeline(out) ==
    DeleteNamed("dl_pipeline", "dl_project", <<"CodePipeline", del.p>>,
                del.p \in remote.codepipeline, out,
                [remote EXCEPT !.codepipeline = @ \ {del.p},
                               !.store = {s \in @ : s[1] # del.p}])

\* 2. codebuild.delete_project
DeleteProject(out) ==
    DeleteNamed("dl_project", "dl_repo", <<"CodeBuild project", del.p>>,
                del.p \in remote.codebuild, out,
                [remote EXCEPT !.codebuild = @ \ {del.p}])

\* 3. ecr.delete_repository(force=True)
DeleteRepository(out) ==
    DeleteNamed("dl_repo", "dl_bucket", <<"ECR repository", del.p>>,
                del.p \in remote.ecr, out,
                [remote EXCEPT !.ecr = @ \ {del.p}])

StartsWith(chars, prefix) ==
    Len(prefix) <= Len(chars) /\ SubSeq(chars, 1, Len(prefix)) = prefix

\* bucket_name.startswith(f"{truncated_name}-") for a bucket named
\* f"{its truncated name}-{timestamp}"; a timestamp has 14 digits
MatchesPattern(bucket, name) ==
    StartsWith(Append(bucket[1], "-"), Append(TruncatedName(name), "-"))

\* lines 1905-1917: the bucket the record names, else the artifact store of
\* the pipeline when get_pipeline answers, else none
NamedBucket(pipeline_meta, p, lookup) ==
    IF pipeline_meta # NoRecord /\ pipeline_meta.s3Bucket # NoBucket
    THEN pipeline_meta.s3Bucket
    ELSE IF lookup = "answer" /\ \E s \in remote.store : s[1] = p
    THEN (CHOOSE s \in remote.store : s[1] = p)[2]
    ELSE NoBucket

RECURSIVE Listed(_)
\* the elements of a set in the order a listing returns them
Listed(S) ==
    IF S = {} THEN <<>>
    ELSE LET x == CHOOSE y \in S : TRUE IN <<x>> \o Listed(S \ {x})

\* line 2001: if pipeline_meta; line 2008: for env_var in env_vars raises
\* TypeError on a null environmentVariables, outside every inner try
AfterBucket(d) ==
    IF d.pipeline_meta = NoRecord THEN [d EXCEPT !.pc = "dl_metadata"]
    ELSE IF d.pipeline_meta.environmentVariables = "null"
    THEN [d EXCEPT !.pc = "responded", !.http = 500, !.success = FALSE,
                   !.route_error = "TypeError"]
    ELSE [d EXCEPT !.pc = "dl_manifest"]

\* 4. the artifact bucket.  `lookup` is the answer of the get_pipeline call,
\* `out` that of the calls on the named bucket or of list_buckets, `failed`
\* the buckets of the scan whose deletion fails.  With no bucket found by the
\* scan, line 1997 reads the undefined name `pattern`: the NameError is
\* caught by the handler of line 1999.
DeleteBucket(lookup, out, failed) ==
    LET p == del.p
        bucket_name == NamedBucket(del.pipeline_meta, p, lookup)
        found_buckets == {b \in remote.s3 : MatchesPattern(b, p)}
        gone == found_buckets \ failed
        kept == found_buckets \cap failed
        scanned == [del EXCEPT
                       !.successes = @ \o [i \in 1..Cardinality(gone) |->
                                               <<"S3 bucket", Listed(gone)[i]>>],
                       !.errors = @ \o [i \in 1..Cardinality(kept) |->
                                            <<"failed", <<"S3 bucket", Listed(kept)[i]>>>>],
                       !.faulty = @ \/ kept # {}]
    IN  /\ del.pc = "dl_bucket"
        /\ lookup \in Outcomes
        /\ out \in Results
        /\ failed \subseteq remote.s3
        /\ IF bucket_name # NoBucket
           THEN IF out = "error"
                THEN /\ del' = AfterBucket(Failure(del, <<"S3 bucket", bucket_name>>))
                     /\ remote' = remote
                ELSE IF bucket_name \in remote.s3
                THEN /\ del' = AfterBucket(Deleted(del, <<"S3 bucket", bucket_name>>))
                     /\ remote' = [remote EXCEPT !.s3 = @ \ {bucket_name}]
                ELSE /\ del' = AfterBucket(NotFound(del, <<"S3 bucket", bucket_name>>))
                     /\ remote' = remote
           ELSE IF out = "error" \/ found_buckets = {}
                THEN /\ del' = AfterBucket(
                                   [Failure(del, <<"S3 artifacts", p>>) EXCEPT
                                        !.faulty = del.faulty \/ out = "error"])
                     /\ remote' = remote
                ELSE /\ del' = AfterBucket(scanned)
                     /\ remote' = [remote EXCEPT !.s3 = @ \ gone]
        /\ UNCHANGED <<lockVars, upd, cr, save_req, utilVars, files, meta>>

\* possible_files of the manifest repository
ManifestCandidates(p) ==
    {<<p, "/", p, ".yml">>, <<p, "/", p, "-", "hpa", ".yml">>,
     <<p, "/", p, "-", "kafka", ".yml">>, <<p, "/", "deployment.yml">>,
     <<p, "/", "service.yml">>, <<p, "/", "manifest.yml">>}

\* possible_files of the appsettings repository
AppsettingsCandidates(p) ==
    {<<p, "/", "appsettings.json">>, <<p, "/", "appsettings.Development.json">>,
     <<p, "/", "appsettings.Production.json">>, <<p, "/", "config.json">>}

\* one folder: get_branch, get_file for each candidate (a candidate in
\* `unseen` fails with another error than FileDoesNotExist and is skipped),
\* then one create_commit deleting the files found; `out` is "error" when
\* get_branch or create_commit fails
DeleteFolder(step, next, resource, candidates, out, unseen) ==
    LET files_to_delete == (candidates \cap files) \ unseen
        d == [del EXCEPT !.pc = next, !.faulty = @ \/ (unseen \cap files # {})]
    IN  /\ del.pc = step
        /\ out \in Results
        /\ unseen \subseteq candidates
        /\ IF out = "error"
           THEN /\ del' = Failure(d, resource)
                /\ files' = files
           ELSE IF files_to_delete # {}
           THEN /\ del' = Deleted(d, resource)
                /\ files' = files \ files_to_delete
           ELSE /\ del' = NotFound(d, resource)
                /\ files' = files
        /\ UNCHANGED <<lockVars, upd, cr, save_req, utilVars, meta, remote>>

\* 5. the manifest folder
DeleteManifestFolder(out, unseen) ==
    DeleteFolder("dl_manifest", "dl_appsettings", <<"manifest folder", del.p>>,
                 ManifestCandidates(del.p), out, unseen)

\* 5. the appsettings folder
DeleteAppsettingsFolder(out, unseen) ==
    DeleteFolder("dl_appsettings", "dl_metadata", <<"appsettings folder", del.p>>,
                 AppsettingsCandidates(del.p), out, unseen)

\* DynamoDBStorage.delete_pipeline: delete_item answers alike whether the item
\* exists or not; False is returned when the call fails
delete_pipeline(table, p, ok) ==
    [table |-> IF ok THEN [table EXCEPT ![p] = NoRecord] ELSE table, ret |-> ok]

\* 6. the metadata record, then the response of lines 2141-2146
DeleteMetadata(ok) ==
    LET out == delete_pipeline(meta, del.p, ok)
        resource == <<"pipeline metadata", del.p>>
        d == IF out.ret THEN Deleted(del, resource)
             ELSE [NotFound(del, resource) EXCEPT !.faulty = TRUE]
    IN  /\ del.pc = "dl_metadata"
        /\ meta' = out.table
        /\ del' = [d EXCEPT !.pc = "responded", !.http = 200,
                            !.success = Len(d.successes) > 0]
        /\ UNCHANGED <<lockVars, upd, cr, save_req, utilVars, files, remote>>

\* return jsonify(...): the request is over
DeleteReturn ==
    /\ del.pc = "responded"
    /\ del' = [IdleDelete EXCEPT
                   !.previous = [p |-> del.p, faulty |-> del.faulty, http |-> del.http],
                   !.runs = del.runs]
    /\ UNCHANGED <<lockVars, upd, cr, save_req, utilVars, files, meta, remote>>

(***************************************************************************)
(* Specifications of the lock manager.                                       *)
(***************************************************************************)
InitLock ==
    /\ locks = EmptyLocks
    /\ hold_start = NoStarts
    /\ first_hold = NoStarts
    /\ now = 0
    /\ mutex = NoThread
    /\ call = [t \in Threads |-> IdleCall]
    /\ upd = IdleUpdate
    /\ files = {}
    /\ meta = EmptyMeta
    /\ cr = IdleCreate
    /\ remote = NoRemote
    /\ del = IdleDelete
    /\ save_req = IdlePost
    /\ InitUtil

NextLock ==
    \/ Tick
    \/ CleanupExpiredLocks
    \/ \E p \in Pipelines, u \in Users, force \in BOOLEAN :
           CallAcquire(MainThread, p, u, force)
    \/ AcquireEnter(MainThread)
    \/ AcquireCheck(MainThread)
    \/ AcquireWrite(MainThread)
    \/ \E p \in Pipelines, u \in Users : ReleaseLock(MainThread, p, u)
    \/ \E p \in Pipelines, u \in Users, force \in BOOLEAN :
           release_pipeline_lock(MainThread, p, u, force)
    \/ \E p \in Pipelines, u \in Users : force_release_pipeline_lock(MainThread, p, u)
    \/ \E p \in Pipelines, u \in Users : RefreshLock(MainThread, p, u)
    \/ \E p \in Pipelines : GetLockStatus(MainThread, p)
    \/ GetAllLocks(MainThread)

SpecLock == InitLock /\ [][NextLock]_vars

(***************************************************************************)
(* Two concurrent acquire_lock calls, one per thread; the clock may tick.    *)
(* The initial table is empty or holds one lock taken at time 0.             *)
(***************************************************************************)
InitRace ==
    /\ now = 0
    /\ mutex = NoThread
    /\ \E q \in Pipelines, w \in Users \cup {NoUser} :
           /\ locks = [p \in Pipelines |->
                          IF p = q /\ w # NoUser THEN NewLock(w, 0) ELSE NoLock]
           /\ hold_start = [p \in Pipelines |->
                               IF p = q /\ w # NoUser THEN 0 ELSE NoTime]
           /\ first_hold = [p \in Pipelines |->
                               IF p = q /\ w # NoUser THEN 0 ELSE NoTime]
    /\ \E p1 \in Pipelines, p2 \in Pipelines, u1 \in Users, u2 \in Users,
          f1 \in BOOLEAN, f2 \in BOOLEAN :
           call = [t \in Threads |->
                      IF t = MainThread THEN Begin(t, "acquire", p1, u1, f1)
                                        ELSE Begin(t, "acquire", p2, u2, f2)]
    /\ upd = IdleUpdate
    /\ files = {}
    /\ meta = EmptyMeta
    /\ cr = IdleCreate
    /\ remote = NoRemote
    /\ del = IdleDelete
    /\ save_req = IdlePost
    /\ InitUtil

NextRace ==
    \/ Tick
    \/ \E t \in Threads : AcquireEnter(t)
    \/ \E t \in Threads : AcquireCheck(t)
    \/ \E t \in Threads : AcquireWrite(t)

SpecRace == InitRace /\ [][NextRace]_vars

(***************************************************************************)
(* One update_pipeline request while the clock runs.  At the start each      *)
(* pipeline is unlocked or was locked by some user at time 0, and has a      *)
(* metadata record or none.                                                  *)
(***************************************************************************)
SeedRecord == [createdAt |-> 0, lastUpdated |-> 0, editor |-> NoUser, s3Bucket |-> NoBucket,
               environmentVariables |-> "list"]

InitUpdate ==
    /\ locks \in [Pipelines -> {NoLock} \cup {NewLock(u, 0) : u \in Users}]
    /\ hold_start = [p \in Pipelines |-> IF locks[p] = NoLock THEN NoTime ELSE 0]
    /\ first_hold = [p \in Pipelines |-> IF locks[p] = NoLock THEN NoTime ELSE 0]
    /\ now = 0
    /\ mutex = NoThread
    /\ call = [t \in Threads |-> IdleCall]
    /\ upd = IdleUpdate
    /\ files = {}
    /\ meta \in [Pipelines -> {NoRecord, SeedRecord}]
    /\ cr = IdleCreate
    /\ remote = NoRemote
    /\ del = IdleDelete
    /\ save_req = IdlePost
    /\ InitUtil

NextUpdate ==
    \/ Tick
    \/ \E p \in Pipelines, u \in Users, cfg \in UpdateConfigs : UpdateBegin(p, u, cfg)
    \/ \E ok \in BOOLEAN : UpdateAppsettings(ok)
    \/ \E ok \in BOOLEAN : UpdateManifest(ok)
    \/ \E ok \in BOOLEAN : UpdateScaling(ok)
    \/ \E ok \in BOOLEAN : UpdateLoadMetadata(ok)
    \/ UpdateSaveMetadata

SpecUpdate == InitUpdate /\ [][NextUpdate]_vars

(***************************************************************************)
(* One create_pipelines request.  The remote services start empty or hold    *)
(* resources under the name svc-api, left by an earlier request or made by     *)
(* other means.                                                              *)
(***************************************************************************)
Items ==
    {[name |-> "svc-api", cfg |-> {"appsettings", "deployment", "scaling"}, missing |-> {}],
     [name |-> "svc-app", cfg |-> {"appsettings", "scaling"}, missing |-> {}],
     [name |-> "ab", cfg |-> {}, missing |-> {}],
     [name |-> "svc-app", cfg |-> {}, missing |-> {"buildspecPath"}]}

Batches == {<<>>} \cup {<<i>> : i \in Items} \cup {<<i, j>> : i, j \in Items}

InitialRemotes ==
    {NoRemote,
     [NoRemote EXCEPT !.codepipeline = {"svc-api"}],
     [NoRemote EXCEPT !.codebuild = {"svc-api"}, !.ecr = {"svc-api"}]}

InitialFiles ==
    {{}, {ManifestPath("svc-api"), AppsettingsPath("svc-api")}}

InitCreate ==
    /\ locks = EmptyLocks
    /\ hold_start = NoStarts
    /\ first_hold = NoStarts
    /\ now = 0
    /\ mutex = NoThread
    /\ call = [t \in Threads |-> IdleCall]
    /\ upd = IdleUpdate
    /\ files \in InitialFiles
    /\ meta = EmptyMeta
    /\ cr = IdleCreate
    /\ remote \in InitialRemotes
    /\ del = IdleDelete
    /\ save_req = IdlePost
    /\ InitUtil

NextCreate ==
    \/ \E batch \in Batches : CreateBegin(batch)
    \/ ItemStart
    \/ \E out \in Outcomes : CheckPipeline(out)
    \/ \E out \in Outcomes : CheckProject(out)
    \/ \E out \in Outcomes : CheckRepository(out)
    \/ \E out \in Outcomes : CheckManifest(out)
    \/ \E out \in Outcomes : CheckAppsettings(out)
    \/ \E out \in Results : CreateRepository(out)
    \/ \E out \in Results : CreateBucket(out)
    \/ \E out \in Results : PrepareBuild(out)
    \/ \E out \in Results : CreateProject(out)
    \/ \E out \in PipelineAnswers : CreatePipeline(out)
    \/ \E out \in Results : ResolveArn(out)
    \/ \E out \in Results : UploadAppsettings(out)
    \/ \E out \in Results : UploadManifest(out)
    \/ \E out \in Results : UploadScaling(out)
    \/ \E out \in Results, later \in 0..MaxTime : SaveMetadata(out, later)
    \/ \E out \in Results : RollbackPipeline(out)
    \/ \E out \in Results : RollbackProject(out)
    \/ \E out \in Results : RollbackRepository(out)
    \/ \E out \in Results : RollbackBucket(out)
    \/ Classify

SpecCreate == InitCreate /\ [][NextCreate]_vars

(***************************************************************************)
(* The name validation of create_pipelines applied to names that meet or     *)
(* break each rule, alone and in pairs.                                      *)
(***************************************************************************)
TestNames ==
    {"", "ab", "abc", "a-1", "1ab", "SV", "Svc", "svC", "-svc", "svc_a", "svc a",
     "svc\n", "a x 60", "a x 61", "svc-api"}

NameItems == {[name |-> n, cfg |-> {}, missing |-> {}] : n \in TestNames}

NameBatches == {<<i>> : i \in NameItems} \cup {<<i, j>> : i, j \in NameItems}

NextValidate ==
    \/ \E batch \in NameBatches : CreateBegin(batch)
    \/ ItemStart
    \/ Classify

SpecValidate == InitCreate /\ [][NextValidate]_vars

(***************************************************************************)
(* Create requests served one after the other, each for one pipeline.        *)
(***************************************************************************)
RepeatBatches == {<<i>> : i \in Items}

NextRepeat ==
    \/ \E batch \in RepeatBatches : CreateBegin(batch)
    \/ ItemStart
    \/ \E out \in Outcomes : CheckPipeline(out)
    \/ \E out \in Outcomes : CheckProject(out)
    \/ \E out \in Outcomes : CheckRepository(out)
    \/ \E out \in Outcomes : CheckManifest(out)
    \/ \E out \in Outcomes : CheckAppsettings(out)
    \/ \E out \in Results : CreateRepository(out)
    \/ \E out \in Results : CreateBucket(out)
    \/ \E out \in Results : PrepareBuild(out)
    \/ \E out \in Results : CreateProject(out)
    \/ \E out \in PipelineAnswers : CreatePipeline(out)
    \/ \E out \in Results : ResolveArn(out)
    \/ \E out \in Results : UploadAppsettings(out)
    \/ \E out \in Results : UploadManifest(out)
    \/ \E out \in Results : UploadScaling(out)
    \/ \E out \in Results, later \in 0..MaxTime : SaveMetadata(out, later)
    \/ \E out \in Results : RollbackPipeline(out)
    \/ \E out \in Results : RollbackProject(out)
    \/ \E out \in Results : RollbackRepository(out)
    \/ \E out \in Results : RollbackBucket(out)
    \/ Classify
    \/ CreateReturn

SpecRepeat == InitCreate /\ [][NextRepeat]_vars

(***************************************************************************)
(* The metadata record of one pipeline under requests served one after the   *)
(* other: create_pipelines, update_pipeline, POST pipeline-metadata and      *)
(* save_pipeline.  The clock moves between requests and between the two      *)
(* readings of SaveMetadata; the AWS calls of create_pipelines answer, the   *)
(* scans and writes of the metadata table may fail.                          *)
(***************************************************************************)
RecordNames == {"svc-api"}

RecordBatches == {<<[name |-> n, cfg |-> {}, missing |-> {}]>> : n \in RecordNames}

RecordConfigs == {{"branchName"}}

\* the timestamps a caller passes to save_pipeline: none, or those of time 0
PipelineData ==
    {[createdAt |-> c, lastUpdated |-> l, editor |-> NoUser, s3Bucket |-> NoBucket,
      environmentVariables |-> "list"] :
         c \in {NoTime, 0}, l \in {NoTime, 0}}

\* the pipeline object of a POST pipeline-metadata request
PostedData == [createdAt |-> NoTime, lastUpdated |-> NoTime, editor |-> NoUser,
               s3Bucket |-> NoBucket, environmentVariables |-> "list"]

\* nothing exists and no record is stored
InitRecord ==
    /\ locks = EmptyLocks
    /\ hold_start = NoStarts
    /\ first_hold = NoStarts
    /\ now = 0
    /\ mutex = NoThread
    /\ call = [t \in Threads |-> IdleCall]
    /\ upd = IdleUpdate
    /\ files = {}
    /\ meta = EmptyMeta
    /\ cr = IdleCreate
    /\ remote = NoRemote
    /\ del = IdleDelete
    /\ save_req = IdlePost
    /\ InitUtil

NextRecord ==
    \/ Quiet /\ Tick
    \/ \E batch \in RecordBatches : Quiet /\ CreateBegin(batch)
    \/ ItemStart
    \/ \E out \in {"answer"} : CheckPipeline(out)
    \/ \E out \in {"answer"} : CheckProject(out)
    \/ \E out \in {"answer"} : CheckRepository(out)
    \/ \E out \in {"answer"} : CheckManifest(out)
    \/ \E out \in {"answer"} : CheckAppsettings(out)
    \/ \E out \in {"ok"} : CreateRepository(out)
    \/ \E out \in {"ok"} : CreateBucket(out)
    \/ \E out \in {"ok"} : PrepareBuild(out)
    \/ \E out \in {"ok"} : CreateProject(out)
    \/ \E out \in {"ok"} : CreatePipeline(out)
    \/ \E out \in Results, later \in 0..MaxTime : SaveMetadata(out, later)
    \/ Classify
    \/ CreateReturn
    \/ \E p \in RecordNames, u \in Users, cfg \in RecordConfigs : Quiet /\ UpdateBegin(p, u, cfg)
    \/ \E ok \in BOOLEAN : UpdateAppsettings(ok)
    \/ \E ok \in BOOLEAN : UpdateManifest(ok)
    \/ \E ok \in BOOLEAN : UpdateScaling(ok)
    \/ \E ok \in BOOLEAN : UpdateLoadMetadata(ok)
    \/ UpdateSaveMetadata
    \/ UpdateReturn
    \/ \E p \in RecordNames, given \in BOOLEAN, ok \in BOOLEAN : Quiet /\ PostLoad(p, given, ok)
    \/ \E failed \in SUBSET RecordNames : PostSave(PostedData, failed)
    \/ PostReturn
    \/ \E p \in RecordNames, data \in PipelineData, ok \in BOOLEAN :
           Quiet /\ SavePipeline(p, data, ok)

SpecRecord == InitRecord /\ [][NextRecord]_vars

(***************************************************************************)
(* Deletion requests served one after the other.  At the start nothing       *)
(* exists, or both pipelines are provisioned (svc-api at time 0, svc-app at  *)
(* time 1) with the records and the files their creation leaves, or svc-api  *)
(* is provisioned and its record was not saved, or there is only a record    *)
(* stored by POST pipeline-metadata.                                         *)
(***************************************************************************)
CreatedAtTime(name) == IF name = "svc-api" THEN 0 ELSE 1

ProvisionedRemote(names) ==
    [codepipeline |-> names, codebuild |-> names, ecr |-> names,
     s3 |-> {BucketName(n, CreatedAtTime(n)) : n \in names},
     store |-> {<<n, BucketName(n, CreatedAtTime(n))>> : n \in names}]

CreatedRecord(name) ==
    [createdAt |-> CreatedAtTime(name), lastUpdated |-> CreatedAtTime(name),
     editor |-> NoUser, s3Bucket |-> BucketName(name, CreatedAtTime(name)),
     environmentVariables |-> "list"]

PostedRecords ==
    {[createdAt |-> 0, lastUpdated |-> 0, editor |-> NoUser, s3Bucket |-> NoBucket,
      environmentVariables |-> e] : e \in {"list", "null"}}

UploadedFiles(name) == {AppsettingsPath(name), ManifestPath(name), ScalingPath(name, "hpa")}

InitDelete ==
    /\ locks = EmptyLocks
    /\ hold_start = NoStarts
    /\ first_hold = NoStarts
    /\ now = 0
    /\ mutex = NoThread
    /\ call = [t \in Threads |-> IdleCall]
    /\ upd = IdleUpdate
    /\ cr = IdleCreate
    /\ del = IdleDelete
    /\ save_req = IdlePost
    /\ InitUtil
    /\ \/ /\ remote = NoRemote
          /\ meta = EmptyMeta
          /\ files = {}
       \/ /\ remote = ProvisionedRemote(Pipelines)
          /\ meta = [q \in Pipelines |-> CreatedRecord(q)]
          /\ files = UNION {UploadedFiles(n) : n \in Pipelines}
       \/ /\ remote = ProvisionedRemote({"svc-api"})
          /\ meta = EmptyMeta
          /\ files = UploadedFiles("svc-api")
       \/ /\ remote = NoRemote
          /\ \E r \in PostedRecords : meta = [EmptyMeta EXCEPT !["svc-api"] = r]
          /\ files = {}

\* the get_file calls of one folder all answer, or one of them fails
Unseen(candidates) == {{}} \cup {{f} : f \in candidates}

NextDelete ==
    \/ \E p \in Pipelines, ok \in BOOLEAN : del.runs < MaxRuns /\ DeleteBegin(p, ok)
    \/ \E out \in Results : DeleteCodePipeline(out)
    \/ \E out \in Results : DeleteProject(out)
    \/ \E out \in Results : DeleteRepository(out)
    \/ \E lookup \in Outcomes, out \in Results, failed \in SUBSET remote.s3 :
           DeleteBucket(lookup, out, failed)
    \/ \E out \in Results, unseen \in Unseen(ManifestCandidates(del.p)) :
           DeleteManifestFolder(out, unseen)
    \/ \E out \in Results, unseen \in Unseen(AppsettingsCandidates(del.p)) :
           DeleteAppsettingsFolder(out, unseen)
    \/ \E ok \in BOOLEAN : DeleteMetadata(ok)
    \/ DeleteReturn

SpecDelete == InitDelete /\ [][NextDelete]_vars

(***************************************************************************)
(* Claims about the lock manager.                                            *)
(***************************************************************************)
LastCall == call[MainThread]

Completed(op) == LastCall.pc = "done" /\ LastCall.op = op

\* The lock a call found: live at the call's time, in the words of the claims.
LiveAt(info, t) == info # NoLock /\ t <= info.acquired_at + lock_timeout_minutes

HeldByOther(info, u) == info # NoLock /\ info.user_id # u

RaceCase ==
    /\ \A t \in Threads : call[t].pc = "done"
    /\ \A t1, t2 \in Threads : call[t1].p = call[t2].p
    /\ \A t1, t2 \in Threads : t1 # t2 => call[t1].u # call[t2].u
    /\ \A t \in Threads : ~call[t].force
    /\ \E t \in Threads : call[t].pre[call[t].p] = NoLock
    /\ now <= lock_timeout_minutes

RaceWinners == {t \in Threads : call[t].ret.success}

\* C1: two concurrent non-forced acquire_lock calls on the same pipeline by
\* different holders, starting with no lock on it and with no time advance
\* past the timeout: exactly one call succeeds and the table holds the entry
\* of the successful caller.
C1_ExactlyOneAcquires ==
    RaceCase =>
        /\ Cardinality(RaceWinners) = 1
        /\ \A t \in RaceWinners :
               /\ locks[call[t].p] # NoLock
               /\ locks[call[t].p].user_id = call[t].u
        /\ \A t \in Threads \ RaceWinners :
               call[t].ret.locked_by \in {call[w].u : w \in RaceWinners}

C1_Witness ==
    /\ RaceCase
    /\ Cardinality(RaceWinners) = 1
    /\ now > 0

\* C2: acquire_lock fails exactly when a live entry of another holder exists
\* and force is false; then the table is unchanged and the result names the
\* holder.  Otherwise it succeeds and the entry becomes {holder, now}.
C2_AcquireContract ==
    Completed("acquire") =>
        LET c == LastCall
            e == c.pre[c.p]
            blocked == LiveAt(e, c.at) /\ HeldByOther(e, c.u) /\ ~c.force
        IN  /\ ~c.ret.success <=> blocked
            /\ blocked =>
                   /\ c.post = c.pre
                   /\ c.ret.locked_by = e.user_id
                   /\ c.http = 409
            /\ ~blocked =>
                   /\ c.ret.success
                   /\ c.ret.locked_by = c.u
                   /\ c.ret.expires_at = c.at + lock_timeout_minutes
                   /\ c.post = [c.pre EXCEPT ![c.p] =
                                   [user_id |-> c.u, acquired_at |-> c.at,
                                    last_activity |-> c.at]]

C2_Witness ==
    /\ Completed("acquire")
    /\ LastCall.force
    /\ LiveAt(LastCall.pre[LastCall.p], LastCall.at)
    /\ HeldByOther(LastCall.pre[LastCall.p], LastCall.u)
    /\ LastCall.post[LastCall.p].user_id = LastCall.u

\* C3: get_lock_status returns none for an expired entry and removes it;
\* get_all_locks returns exactly the entries that are not expired and removes
\* the expired ones; neither removes or hides an entry that is not expired.
C3_LazyExpiry ==
    /\ Completed("status") =>
           LET c == LastCall
               e == c.pre[c.p]
           IN  /\ (e # NoLock /\ ~LiveAt(e, c.at)) =>
                      c.ret = None /\ c.post = [c.pre EXCEPT ![c.p] = NoLock]
               /\ LiveAt(e, c.at) =>
                      /\ c.ret # None
                      /\ c.ret.locked_by = e.user_id
                      /\ c.ret.locked_at = e.acquired_at
                      /\ c.post = c.pre
               /\ e = NoLock => c.ret = None /\ c.post = c.pre
    /\ Completed("all") =>
           LET c == LastCall
           IN  /\ DOMAIN c.ret = {q \in Pipelines : LiveAt(c.pre[q], c.at)}
               /\ \A q \in DOMAIN c.ret :
                      /\ c.ret[q].locked_by = c.pre[q].user_id
                      /\ c.ret[q].locked_at = c.pre[q].acquired_at
               /\ \A q \in Pipelines :
                      c.post[q] = IF LiveAt(c.pre[q], c.at) THEN c.pre[q] ELSE NoLock

C3_Witness ==
    /\ Completed("status")
    /\ LastCall.pre[LastCall.p] # NoLock
    /\ LastCall.ret = None
    /\ LastCall.post[LastCall.p] = NoLock

\* C4: release_lock(p, h): success and no change if p has no entry; failure
\* and no change if another holder has it; otherwise the entry is removed and
\* get_lock_status(p) is none afterwards.
C4_ReleaseContract ==
    Completed("release") =>
        LET c == LastCall
            e == c.pre[c.p]
        IN  /\ e = NoLock => c.ret.success /\ c.post = c.pre
            /\ HeldByOther(e, c.u) => ~c.ret.success /\ c.post = c.pre
            /\ (e # NoLock /\ e.user_id = c.u) =>
                   /\ c.ret.success
                   /\ c.post = [c.pre EXCEPT ![c.p] = NoLock]
                   /\ StatusOutcome(c.post, c.p, c.at).ret = None

C4_Witness ==
    /\ Completed("release")
    /\ LastCall.pre[LastCall.p] # NoLock
    /\ LastCall.pre[LastCall.p].user_id = LastCall.u
    /\ LastCall.post[LastCall.p] = NoLock

\* C5: a forced release through the force-release route by a user who is not
\* the holder removes the lock and reports success.
C5_ForceReleaseRemoves ==
    (Completed("route_force_release") /\ HeldByOther(LastCall.pre[LastCall.p], LastCall.u)) =>
        /\ LastCall.ret.success
        /\ LastCall.post[LastCall.p] = NoLock

\* C6: refresh_lock fails with a not-locked result if p has no entry, with a
\* forbidden result if another holder has it, both leaving the table
\* unchanged; otherwise it succeeds and changes last_activity only.
C6_RefreshContract ==
    Completed("refresh") =>
        LET c == LastCall
            e == c.pre[c.p]
        IN  /\ e = NoLock =>
                   /\ ~c.ret.success
                   /\ c.ret.message = <<"Pipeline is not locked">>
                   /\ c.post = c.pre
            /\ HeldByOther(e, c.u) =>
                   /\ ~c.ret.success
                   /\ c.ret.message = <<"Cannot refresh lock held by", e.user_id>>
                   /\ c.http = 403
                   /\ c.post = c.pre
            /\ (e # NoLock /\ e.user_id = c.u) =>
                   /\ c.ret.success
                   /\ c.post = [c.pre EXCEPT ![c.p] =
                                   [user_id |-> e.user_id, acquired_at |-> e.acquired_at,
                                    last_activity |-> c.at]]

C6_Witness ==
    /\ Completed("refresh")
    /\ LastCall.ret.success
    /\ LastCall.post[LastCall.p].last_activity > LastCall.pre[LastCall.p].last_activity

UpdateServed == upd.pc # "idle" /\ upd.cfg # {}

LockedOutAtCheck == LiveAt(upd.entry, upd.at) /\ HeldByOther(upd.entry, upd.u)

\* C8: an update request (carrying a pipeline configuration) for p by user B
\* is refused with 409 exactly when the lock on p is live and held by another
\* user at the time of the request; a refused request uploads no file and
\* writes no metadata; a request by the holder, or on an unlocked or expired
\* lock, goes on to the uploads and the metadata update and is answered 200.
C8_UpdateRefusedWhenLocked ==
    UpdateServed =>
        /\ upd.http = 409 <=> LockedOutAtCheck
        /\ LockedOutAtCheck =>
               /\ upd.pc = "responded"
               /\ upd.uploaded = {}
               /\ files = {}
               /\ ~upd.wrote
               /\ \A q \in Pipelines : meta[q] \in {NoRecord, SeedRecord}
        /\ ~LockedOutAtCheck =>
               /\ upd.pc = "responded" => upd.http = 200
               /\ upd.pc \in {"manifest", "scaling", "load", "save", "responded"} =>
                      ("appsettings" \in upd.cfg <=> AppsettingsPath(upd.p) \in upd.uploaded)

C8_Witness ==
    /\ UpdateServed
    /\ LockedOutAtCheck
    /\ upd.http = 409
    /\ upd.cfg = {"appsettings", "deployment", "scaling"}
    /\ meta[upd.p] # NoRecord

(***************************************************************************)
(* Claims about create_pipelines.                                            *)
(***************************************************************************)
PreflightCalls ==
    <<"get_pipeline", "batch_get_projects", "describe_repositories",
      "get_file manifest", "get_file appsettings">>

CreateCalls == {"create_repository", "create_bucket", "create_project", "create_pipeline"}

UploadCalls == {"upload appsettings", "upload manifest", "upload scaling"}

Called(calls) == \E i \in 1..Len(cr.trace) : cr.trace[i][1] \in calls

ResourceOf(what) ==
    CASE what = "get_pipeline" -> "CodePipeline"
      [] what = "batch_get_projects" -> "CodeBuild project"
      [] what = "describe_repositories" -> "ECR repository"
      [] what = "get_file manifest" -> "Manifest folder"
      [] what = "get_file appsettings" -> "Appsettings folder"

FoundAt == {i \in 1..Len(cr.trace) : cr.trace[i][2] = "found"}

ItemDone == cr.idx >= 1 /\ Len(cr.created_pipelines) = cr.idx

ItemResult == cr.created_pipelines[cr.idx]

Lists(result, i) ==
    /\ result.status = "absent"
    /\ \E j \in 1..Len(result.error[2]) :
           result.error[2][j] = <<ResourceOf(cr.trace[i][1]), result.name>>

\* C9: once a pre-flight query of the current item has found an existing
\* pipeline, build project, registry repository, manifest file or appsettings
\* file, no create call and no upload is made for the item, nothing is
\* entered in its ledger, no metadata record is written, and the result
\* reported for the item lists every resource that was found.
C9_ConflictRefusedWithListing ==
    FoundAt # {} =>
        /\ ~Called(CreateCalls \cup UploadCalls \cup {"save_pipeline"})
        /\ cr.ledger = EmptyLedger
        /\ ItemDone => \A i \in FoundAt : Lists(ItemResult, i)

Rank(what) ==
    CASE what = "get_pipeline" -> 1
      [] what = "batch_get_projects" -> 2
      [] what = "describe_repositories" -> 3
      [] what = "get_file manifest" -> 4
      [] what = "get_file appsettings" -> 5
      [] what = "create_repository" -> 6
      [] what = "create_bucket" -> 7
      [] what = "list_connections" -> 8
      [] what = "create_project" -> 9
      [] what = "create_pipeline" -> 10
      [] what = "get_caller_identity" -> 11
      [] what = "upload appsettings" -> 12
      [] what = "upload manifest" -> 13
      [] what = "upload scaling" -> 14
      [] what = "save_pipeline" -> 15
      [] what = "delete_pipeline" -> 16
      [] what = "delete_project" -> 17
      [] what = "delete_repository" -> 18
      [] what = "delete_bucket" -> 19

Provisioned == ItemDone /\ ItemResult.status = "created"

\* C10: the remote calls made for one item are made one after the other in
\* this order: the five pre-flight queries, create repository, create bucket,
\* create build project, create pipeline, the uploads (appsettings, manifest,
\* scaling manifest), the metadata write; a create call is made only after
\* all five pre-flight queries have returned, and an item reported as created
\* has gone through the pre-flight queries, the four create calls and the
\* metadata write.
C10_CallsInOrder ==
    /\ \A i \in 1..Len(cr.trace) - 1 : Rank(cr.trace[i][1]) < Rank(cr.trace[i + 1][1])
    /\ Called(CreateCalls) =>
           /\ Len(cr.trace) > Len(PreflightCalls)
           /\ \A i \in 1..Len(PreflightCalls) : cr.trace[i][1] = PreflightCalls[i]
    /\ Provisioned =>
           /\ \A what \in CreateCalls \cup {"save_pipeline"} : Called({what})
           /\ cr.trace[Len(cr.trace)][1] = "save_pipeline"

C10_Witness ==
    /\ Provisioned
    /\ CurrentItem.cfg = {"appsettings", "deployment", "scaling"}
    /\ \A what \in UploadCalls : Called({what})
    /\ Len(cr.trace) = 14

DeleteCalls == {"delete_pipeline", "delete_project", "delete_repository", "delete_bucket"}

DeleteCallOf(step) ==
    CASE step = "rb_pipeline" -> "delete_pipeline"
      [] step = "rb_project" -> "delete_project"
      [] step = "rb_repo" -> "delete_repository"
      [] step = "rb_bucket" -> "delete_bucket"

Outcome(what, outcome) ==
    \E i \in 1..Len(cr.trace) : cr.trace[i] = <<what, outcome>>

CallsIn(calls) == {cr.trace[i][1] : i \in {j \in 1..Len(cr.trace) : cr.trace[j][1] \in calls}}

IsFailedDelete(entry) == entry[1] \in DeleteCalls /\ entry[2] = "error"

FailedDeletes ==
    LET failed == SelectSeq(cr.trace, IsFailedDelete)
    IN  [i \in 1..Len(failed) |-> failed[i][1]]

Failed == ItemDone /\ ItemResult.status = "error"

\* C11: an item that ends with status error has had a deletion attempted for
\* every resource its ledger holds and for no other, in the order pipeline,
\* build project, registry repository, bucket; a deletion that failed did not
\* stop the later ones; the item's error carries the creation error and the
\* failed deletions.
C11_RollbackBestEffort ==
    Failed =>
        /\ \A k \in 1..Len(RollbackOrder) :
               Ledgered(cr.ledger, RollbackOrder[k]) <=> Called({DeleteCallOf(RollbackOrder[k])})
        /\ \A i, j \in 1..Len(cr.trace) :
               (i < j /\ cr.trace[i][1] \in DeleteCalls /\ cr.trace[j][1] \in DeleteCalls)
                   => Rank(cr.trace[i][1]) < Rank(cr.trace[j][1])
        /\ cr.error # "none"
        /\ ItemResult.error.creation_error = cr.error
        /\ ItemResult.error.rollback_errors = FailedDeletes

C11_Witness ==
    /\ Failed
    /\ cr.ledger.ecr_repository # NoName
    /\ cr.ledger.codebuild_project # NoName
    /\ cr.ledger.s3_bucket # NoBucket
    /\ Outcome("delete_project", "error")
    /\ Outcome("delete_repository", "ok")
    /\ Outcome("delete_bucket", "error")

RepositoryThenProjectFails ==
    /\ Failed
    /\ Outcome("create_repository", "ok")
    /\ Outcome("create_project", "error")

\* C12 as stated: when the repository was created and the creation of the
\* build project then failed, the only deletion attempted is that of the
\* repository, and the item ends with status error.
C12_OnlyRepositoryDeleted ==
    (ItemDone /\ Outcome("create_repository", "ok") /\ Outcome("create_project", "error")) =>
        /\ CallsIn(DeleteCalls) = {"delete_repository"}
        /\ ItemResult.status = "error"

\* C12 as amended: when the repository was created and the creation of the
\* build project then failed, the deletions attempted are exactly those of the
\* repository and of the artifact bucket created for the item, and the item
\* ends with status error.
C12_RepositoryAndBucketDeleted ==
    (ItemDone /\ Outcome("create_repository", "ok") /\ Outcome("create_project", "error")) =>
        /\ CallsIn(DeleteCalls) = {"delete_repository", "delete_bucket"}
        /\ Outcome("create_bucket", "ok")
        /\ cr.ledger.s3_bucket = cr.bucket_name
        /\ ItemResult.status = "error"

C12_Witness ==
    /\ RepositoryThenProjectFails
    /\ Outcome("delete_repository", "ok")
    /\ Outcome("delete_bucket", "ok")
    /\ CurrentName \notin remote.ecr

UploadFailed == \E what \in UploadCalls : Outcome(what, "error")

LedgerKept ==
    /\ cr.ledger.ecr_repository # NoName => cr.ledger.ecr_repository \in remote.ecr
    /\ cr.ledger.codebuild_project # NoName => cr.ledger.codebuild_project \in remote.codebuild
    /\ cr.ledger.codepipeline # NoName => cr.ledger.codepipeline \in remote.codepipeline
    /\ cr.ledger.s3_bucket # NoBucket => cr.ledger.s3_bucket \in remote.s3

RollbackInvoked == cr.error # "none"

CoreCreateCalls == {"create_repository", "create_project", "create_pipeline"}

RaisingCalls ==
    {"get_pipeline", "describe_repositories", "create_repository", "create_bucket",
     "list_connections", "create_project", "create_pipeline", "get_caller_identity"}

FailedIn(calls) == \E what \in calls : Outcome(what, "error")

Accepted == cr.idx >= 1 /\ cr.pc = "chk_pipeline"

Rejected ==
    /\ ItemDone
    /\ ItemResult.status = "absent"
    /\ ItemResult.error[1] = "Pipeline name validation failed"

WellFormedName(chars) ==
    /\ Len(chars) >= 3
    /\ Len(chars) <= 60
    /\ \A i \in 1..Len(chars) : chars[i] \notin UpperLetters
    /\ chars[1] \in LowerLetters \cup Digits
    /\ \A i \in 2..Len(chars) : chars[i] \in LowerLetters \cup Digits \cup {"-"}

Mentions(msg) ==
    \E i \in 1..Len(ItemResult.error[2]) : ItemResult.error[2][i] = msg

RuleMessages(chars) ==
    IF Len(chars) = 0
    THEN Mentions("Pipeline name is required")
    ELSE /\ Len(chars) < 3 => Mentions("Pipeline name must be at least 3 characters")
         /\ Len(chars) > 60 => Mentions("Pipeline name must not exceed 60 characters")
         /\ (\E i \in 1..Len(chars) : chars[i] \in UpperLetters)
                => Mentions("Pipeline name must be lowercase")
         /\ (\/ chars[1] \notin LowerLetters \cup Digits
             \/ \E i \in 2..Len(chars) : chars[i] \notin LowerLetters \cup Digits \cup {"-"})
                => Mentions("Pipeline name must start with a letter or number and contain only lowercase letters, numbers, and hyphens")

\* C15: the validation of an item's name lets the item through exactly when
\* the name has 3 to 60 characters, no uppercase letter, a lowercase letter or
\* digit first and only lowercase letters, digits and hyphens after it; a
\* refused item's error holds the message of every rule its name breaks.
C15_NameValidation ==
    (Accepted \/ Rejected) =>
        /\ Accepted <=> WellFormedName(Spelling(CurrentName))
        /\ Rejected => RuleMessages(Spelling(CurrentName))

Malformed(item) == item.missing # {} \/ ~WellFormedName(Spelling(item.name))

Responded == cr.pc = "responded"

\* C16: an item with a malformed name or a missing required field is reported
\* as an error of that item after no remote call, and the request goes on:
\* the response reports every item of the batch.
C16_MalformedItemReportedPerItem ==
    /\ (cr.idx >= 1 /\ Malformed(CurrentItem)) =>
           /\ cr.trace = <<>>
           /\ ItemDone
           /\ ItemResult.status # "created"
    /\ Responded =>
           /\ cr.route_error = "none"
           /\ Len(cr.created_pipelines) = Len(cr.batch)

NoneCreated == WithStatus(cr.created_pipelines, "created") = {}

\* C17: a request in which no pipeline ends as created (every item failed its
\* validation, met a conflict or a creation error, or the request held no
\* item) is answered with success false and a status other than 200.
C17_NoneCreatedReportsFailure ==
    (Responded /\ NoneCreated) => (cr.success = FALSE /\ cr.http # 200)

FailedItems ==
    {i \in 1..Len(cr.created_pipelines) : cr.created_pipelines[i].status # "created"}

\* C18: a request in which at least one pipeline is created and at least one
\* fails its validation, meets a conflict or a creation error is answered
\* with success false and status 207, with one entry per requested pipeline
\* whose status is created for a success and error for a failure.
C18_PartialFailureIs207 ==
    (Responded /\ cr.route_error = "none" /\ ~NoneCreated /\ FailedItems # {}) =>
        /\ cr.success = FALSE
        /\ cr.http = 207
        /\ Len(cr.created_pipelines) = Len(cr.batch)
        /\ \A i \in FailedItems : cr.created_pipelines[i].status = "error"

LedgerNames(ledger) ==
    [codepipeline |-> {ledger.codepipeline} \ {NoName},
     codebuild |-> {ledger.codebuild_project} \ {NoName},
     ecr |-> {ledger.ecr_repository} \ {NoName},
     s3 |-> {ledger.s3_bucket} \ {NoBucket}]

RemoteKinds == {"codepipeline", "codebuild", "ecr", "s3"}

\* a step removes from the remote services only a resource of the current
\* item's ledger, and none that existed when the item was started
OwnResourcesOnly ==
    \A kind \in RemoteKinds :
        /\ (remote[kind] \ remote'[kind]) \subseteq LedgerNames(cr.ledger)[kind]
        /\ (remote[kind] \ remote'[kind]) \cap cr.at_start[kind] = {}

\* C19: the rollback of a failed item deletes only resources of the item's
\* own ledger and none that existed when the item was started (those that
\* existed before the request and those created for an earlier item of the
\* batch); after a creation failure the remaining items are processed, so
\* that the response reports every item.
C19_FailureLeavesSiblingsAlone ==
    [][/\ OwnResourcesOnly
       /\ (cr'.pc = "responded" /\ cr'.route_error = "none")
              => Len(cr'.created_pipelines) = Len(cr'.batch)]_vars

ErrorOf(what) ==
    CASE what = "create_bucket" -> "Failed to create S3 bucket"
      [] what = "list_connections" -> "get_caller_identity failed"
      [] what = "get_pipeline" -> "get_pipeline failed"
      [] what = "describe_repositories" -> "describe_repositories failed"
      [] what = "create_repository" -> "create_repository failed"
      [] what = "create_project" -> "create_project failed"
      [] what = "create_pipeline" -> "create_pipeline failed"
      [] what = "get_caller_identity" -> "get_caller_identity failed"
      [] OTHER -> "never raised"

Surfaced(what, result) ==
    /\ result.status = "error"
    /\ \/ result.error.creation_error = ErrorOf(what)
       \/ \E i \in 1..Len(result.error.rollback_errors) : result.error.rollback_errors[i] = what

\* C20: when an item has been reported, every call made for it that failed is
\* found in the item's error (as the creation error or among the rollback
\* errors); in particular no item with a failed call is reported as created.
C20_CaughtFailuresSurfaced ==
    ItemDone =>
        \A i \in 1..Len(cr.trace) :
            cr.trace[i][2] = "error" => Surfaced(cr.trace[i][1], ItemResult)

(***************************************************************************)
(* Claims about one fresh create request and about the metadata record.      *)
(***************************************************************************)
OkAt(what) == {i \in 1..Len(cr.trace) : cr.trace[i] = <<what, "ok">>}

\* the request of one item with a well-formed name that carries pipelineName,
\* repositoryName, branchName and computeType, served while nothing exists
\* under the name and with every remote call succeeding
FreshRequestServed ==
    /\ cr.pc = "responded"
    /\ Len(cr.batch) = 1
    /\ validation_errors(cr.batch[1].name) = <<>>
    /\ cr.batch[1].missing \subseteq {"buildspecPath"}
    /\ cr.at_start = NoRemote
    /\ \A i \in 1..Len(cr.trace) : cr.trace[i][2] \in {"absent", "ok"}

\* C21: a create request of one item with a valid name that carries
\* pipelineName, repositoryName, branchName and computeType, served with no
\* resource existing beforehand and every remote call succeeding, creates the
\* registry repository, then the build project, then the pipeline, leaves a
\* metadata record for the name whose createdAt equals its lastUpdated, and
\* reports the item with status created.
C21_FreshCreateSucceeds ==
    FreshRequestServed =>
        /\ cr.route_error = "none"
        /\ Len(cr.created_pipelines) = 1
        /\ cr.created_pipelines[1].status = "created"
        /\ \E i \in OkAt("create_repository"), j \in OkAt("create_project"),
              k \in OkAt("create_pipeline") : i < j /\ j < k
        /\ meta[cr.batch[1].name] # NoRecord
        /\ meta[cr.batch[1].name].createdAt = meta[cr.batch[1].name].lastUpdated

\* the item being served bears a name that an earlier request reported as
\* created
Repeated == cr.idx >= 1 /\ cr.pc # "idle" /\ CurrentName \in cr.earlier

RefusedNaming(result, resource) ==
    /\ result.status = "absent"
    /\ result.success = FALSE
    /\ result.error[1] = "Cannot create pipeline, resources already exist"
    /\ \E j \in 1..Len(result.error[2]) : result.error[2][j] = resource

CreatedAtKept(p) ==
    (meta[p] # NoRecord /\ meta'[p] # NoRecord) => meta'[p].createdAt = meta[p].createdAt

LastUpdatedSet(p) ==
    (meta'[p] # meta[p] /\ meta'[p] # NoRecord) => meta'[p].lastUpdated = now'

\* C23: in every step that writes the metadata record of a pipeline
\* (create_pipelines, update_pipeline, POST pipeline-metadata, save_pipeline)
\* the createdAt of an existing record stays what it was, and the record's
\* lastUpdated becomes the time of the step.
C23_TimestampsKept ==
    [][\A p \in Pipelines : CreatedAtKept(p) /\ LastUpdatedSet(p)]_vars

(***************************************************************************)
(* Claims about delete_pipeline_resources.                                   *)
(***************************************************************************)
DeleteServed == del.pc = "responded"

\* the resources the response mentions, as deleted or in the errors list
Entries ==
    {del.successes[i] : i \in 1..Len(del.successes)} \cup
    {del.errors[i][2] : i \in 1..Len(del.errors)}

Mentioned(kinds) == \E e \in Entries : e[1] \in kinds

SubDeletions ==
    {{"CodePipeline"}, {"CodeBuild project"}, {"ECR repository"},
     {"S3 bucket", "S3 artifacts"}, {"manifest folder"}, {"appsettings folder"},
     {"pipeline metadata"}}

\* C24: whatever the name and the outcomes of the sub-deletions, the response
\* of the deletion workflow is not a 500 and accounts for every sub-deletion
\* (pipeline, build project, registry repository, artifact bucket, manifest
\* files, appsettings files, metadata record) as deleted or as an entry of
\* the errors list.
C24_EverySubDeletionAttempted ==
    DeleteServed =>
        /\ del.http = 200
        /\ del.route_error = "none"
        /\ \A kinds \in SubDeletions : Mentioned(kinds)

\* the second of two runs on one name, every call of both runs having answered
SecondRunServed ==
    /\ DeleteServed
    /\ del.runs = 2
    /\ del.previous.p = del.p
    /\ ~del.previous.faulty
    /\ ~del.faulty

ReportedNotFound(kinds) ==
    \E i \in 1..Len(del.errors) : del.errors[i][1] = "not found" /\ del.errors[i][2][1] \in kinds

\* C25: when the deletion workflow is run twice in a row on one name and
\* every remote call of both runs answers, the second run responds 200 with
\* success false, reports no sub-deletion as done and reports not found for
\* each of pipeline, build project, registry repository, artifact bucket,
\* manifest files, appsettings files and metadata record.
C25_SecondRunFindsNothing ==
    SecondRunServed =>
        /\ del.http = 200
        /\ del.successes = <<>>
        /\ del.success = FALSE
        /\ \A kinds \in SubDeletions : ReportedNotFound(kinds)

(***************************************************************************)
(* Manifest generation and the template editor.                             *)
(***************************************************************************)
\* upload_manifest_to_codecommit calling generate_k8s_manifest
GenerateManifest(pipeline_name, ecr_uri, deployment_config, readable) ==
    LET loaded == load_manifest_template(manifest_template, readable)
    IN  /\ gen.pc = "idle"
        /\ gen' = [gen EXCEPT !.pc = "generated",
                     !.pipeline_name = pipeline_name,
                     !.ecr_uri = ecr_uri,
                     !.deployment_config = deployment_config,
                     !.loaded = loaded,
                     !.result = generate_k8s_manifest(loaded.template, pipeline_name,
                                                      ecr_uri, deployment_config)]
        /\ UNCHANGED <<lockVars, upd, files, meta, cr, remote, del, save_req, peer, chk,
                       manifest_template, stg>>

\* a second call with the same arguments
GenerateAgain(readable) ==
    LET loaded == load_manifest_template(manifest_template, readable)
    IN  /\ gen.pc = "generated"
        /\ gen' = [gen EXCEPT !.pc = "repeated",
                     !.loaded_again = loaded,
                     !.again = generate_k8s_manifest(loaded.template, gen.pipeline_name,
                                                     gen.ecr_uri, gen.deployment_config)]
        /\ UNCHANGED <<lockVars, upd, files, meta, cr, remote, del, save_req, peer, chk,
                       manifest_template, stg>>

GenerateReturn ==
    /\ gen.pc \in {"generated", "repeated"}
    /\ gen' = IdleGen
    /\ UNCHANGED <<lockVars, upd, files, meta, cr, remote, del, save_req, peer, chk,
                   manifest_template, stg>>

\* update_manifest_template_editor: f.write(template)
UpdateManifestTemplate(template) ==
    /\ gen.pc \in {"idle", "generated"}
    /\ manifest_template' = [manifest_template EXCEPT !.custom = File(template)]
    /\ UNCHANGED <<lockVars, upd, files, meta, cr, remote, del, save_req, peer, chk, gen, stg>>

\* a template with every placeholder, the affinity lines left to
\* node_affinity_section
FullTemplate ==
    <<"kind: Deployment name: deployment-">> \o Token("pipeline_name")
    \o <<"namespace: ">> \o Token("namespace")
    \o <<"app.type: ">> \o Token("app_type")
    \o <<"product: ">> \o Token("product")
    \o <<"image: ">> \o Token("image")
    \o <<"containerPort: ">> \o Token("target_port")
    \o <<"limits: ">> \o Token("memory_limit") \o Token("cpu_limit")
    \o <<"requests: ">> \o Token("memory_request") \o Token("cpu_request")
    \o Token("node_affinity_section")
    \o <<"nodeSelector: ">> \o Token("node_group")
    \o <<"kind: Service type: ">> \o Token("service_type")

\* texts a template file holds: written by the operator, or the preview of
\* the built-in template saved back
TemplateTexts == {FullTemplate, BuiltinTemplate, <<>>}

TemplateFiles == {NoFile} \cup {File(text) : text \in TemplateTexts}

ConfigKeys ==
    {"namespace", "appType", "product", "memoryLimit", "cpuLimit", "memoryRequest",
     "cpuRequest", "nodeGroup", "targetPort", "serviceType"}

ConfigValues ==
    {Str(<<"custom">>), Str(Token("pipeline_name")), Num(<<"512">>), NoneValue}

\* deployment configs of a request: at most one of the text fields, and the
\* node group switch absent, true or false
DeploymentConfigs ==
    {field @@ switch :
        field \in {EmptyConfig} \cup {key :> value : key \in ConfigKeys, value \in ConfigValues},
        switch \in {EmptyConfig} \cup {"useSpecificNodeGroup" :> value : value \in {True, False}}}

PipelineNameTexts == {<<p>> : p \in Pipelines}

\* the repositoryUri of the registry repository
EcrUris == {<<"registry/repository">>}

InitManifest ==
    /\ locks = EmptyLocks
    /\ hold_start = NoStarts
    /\ first_hold = NoStarts
    /\ now = 0
    /\ mutex = NoThread
    /\ call = [t \in Threads |-> IdleCall]
    /\ upd = IdleUpdate
    /\ files = {}
    /\ meta = EmptyMeta
    /\ cr = IdleCreate
    /\ remote = NoRemote
    /\ del = IdleDelete
    /\ save_req = IdlePost
    /\ peer = IdleCreate
    /\ chk = IdleCheck
    /\ manifest_template \in [custom : TemplateFiles, default : TemplateFiles]
    /\ gen = IdleGen
    /\ stg = IdleSettings

NextManifest ==
    \/ \E pipeline_name \in PipelineNameTexts, ecr_uri \in EcrUris,
          deployment_config \in DeploymentConfigs, readable \in BOOLEAN :
          GenerateManifest(pipeline_name, ecr_uri, deployment_config, readable)
    \/ \E readable \in BOOLEAN : GenerateAgain(readable)
    \/ GenerateReturn
    \/ \E template \in TemplateTexts : UpdateManifestTemplate(template)

SpecManifest == InitManifest /\ [][NextManifest]_vars

(***************************************************************************)
(* Claims about the manifest generator.                                     *)
(***************************************************************************)
\* the positions of `text` where `part` starts
Occurrences(text, part) ==
    {j \in 1..(Len(text) - Len(part) + 1) : SubSeq(text, j, j + Len(part) - 1) = part}

FixedSet == {Placeholders[i] : i \in 1..Len(Placeholders)}

Generated == gen.pc \in {"generated", "repeated"}

NoTokenLeft(manifest) == \A name \in FixedSet : Occurrences(manifest, Token(name)) = {}

\* the documented default of each placeholder, for the arguments of the call
DefaultText(name) ==
    CASE name = "pipeline_name" -> gen.pipeline_name
      [] name = "namespace" -> <<"staging-locobuzz">>
      [] name = "app_type" -> <<"csharp">>
      [] name = "product" -> <<"cmo">>
      [] name = "image" -> gen.ecr_uri \o <<":latest">>
      [] name = "memory_limit" -> <<"300Mi">>
      [] name = "cpu_limit" -> <<"300m">>
      [] name = "memory_request" -> <<"150Mi">>
      [] name = "cpu_request" -> <<"150m">>
      [] name = "node_group" -> <<"cmo-nodegroup">>
      [] name = "target_port" -> <<"80">>
      [] name = "service_type" -> <<"ClusterIP">>
      [] OTHER -> <<>>

\* every placeholder of the template has become its default: the default
\* stands as often as the placeholder stood, and the text has shrunk by the
\* two pieces a one-piece default saves, by one for the image and by three
\* for the empty affinity section
DefaultsSubstituted(template, manifest) ==
    /\ \A name \in FixedSet \ {"node_affinity_section"} :
          Cardinality(Occurrences(manifest, DefaultText(name)))
              = Cardinality(Occurrences(template, Token(name)))
                + Cardinality(Occurrences(template, DefaultText(name)))
    /\ Len(manifest) = Len(template)
          - 2 * Cardinality(UNION {Occurrences(template, Token(name)) :
                                      name \in FixedSet \ {"image", "node_affinity_section"}})
          - Cardinality(Occurrences(template, Token("image")))
          - 3 * Cardinality(Occurrences(template, Token("node_affinity_section")))

SameInputsSameOutput ==
    (gen.pc = "repeated" /\ gen.loaded_again = gen.loaded) => gen.again = gen.result

\* C26: for every deployment config the generated manifest holds no
\* '{{ name }}' token of the fixed set of placeholders; with no optional
\* field supplied each placeholder is replaced by its default; and a second
\* call with the same arguments on the same template gives the same manifest.
C26_NoPlaceholderLeft ==
    Generated =>
        /\ gen.result.raised = "none"
        /\ NoTokenLeft(gen.result.manifest)
        /\ gen.deployment_config = EmptyConfig
              => DefaultsSubstituted(gen.loaded.template, gen.result.manifest)
        /\ SameInputsSameOutput

\* the manifest has an affinity or a tolerations section
HasAffinityBlock(manifest) ==
    \E i \in 1..Len(manifest) :
        manifest[i] \in {"affinity: nodeAffinity: key: ", "tolerations: key: "}

SwitchSet == Truthy(get(gen.deployment_config, "useSpecificNodeGroup", False))

\* C27: whichever template is loaded (custom file, default file, built-in
\* text), the generated manifest has the affinity and tolerations block when
\* useSpecificNodeGroup is set and has neither section when it is not.
C27_AffinityOnlyWhenSet ==
    (Generated /\ gen.result.raised = "none" /\ gen.loaded.source \in {"custom", "default", "builtin"})
        => (HasAffinityBlock(gen.result.manifest) <=> SwitchSet)

(***************************************************************************)
(* Loading and saving the pipeline settings.                                *)
(***************************************************************************)
\* storage.save_settings('pipeline_settings', settings)
SaveSettings(settings) ==
    /\ stg.pc = "idle"
    /\ stg' = [stg EXCEPT !.stored = Stored(settings)]
    /\ UNCHANGED <<lockVars, upd, files, meta, cr, remote, del, save_req, peer, chk,
                   manifest_template, gen>>

\* load_pipeline_settings, with no settings file left to migrate: stored
\* settings are merged over the defaults, missing or empty ones are replaced
\* by the defaults
LoadPipelineSettings ==
    /\ stg.pc = "idle"
    /\ IF stg.stored.exists /\ stg.stored.data # {}
       THEN LET merged == merge_with_defaults(stg.stored.data, stg.defaults)
            IN  stg' = [stg EXCEPT !.pc = "merged", !.settings = stg.stored.data,
                          !.defaults = merged.defaults, !.merged = merged.result]
       ELSE stg' = [stg EXCEPT !.pc = "defaulted", !.stored = Stored(stg.defaults),
                      !.merged = stg.defaults]
    /\ UNCHANGED <<lockVars, upd, files, meta, cr, remote, del, save_req, peer, chk,
                   manifest_template, gen>>

\* merge_with_defaults(merged_settings, default_settings): the next load of
\* settings that were saved as they were returned
MergeAgain ==
    /\ stg.pc = "merged"
    /\ LET merged == merge_with_defaults(stg.merged, stg.defaults)
       IN  stg' = [stg EXCEPT !.pc = "remerged", !.defaults = merged.defaults,
                     !.again = merged.result]
    /\ UNCHANGED <<lockVars, upd, files, meta, cr, remote, del, save_req, peer, chk,
                   manifest_template, gen>>

SettingsReturn ==
    /\ stg.pc \in {"merged", "defaulted", "remerged"}
    /\ stg' = [IdleSettings EXCEPT !.stored = stg.stored]
    /\ UNCHANGED <<lockVars, upd, files, meta, cr, remote, del, save_req, peer, chk,
                   manifest_template, gen>>

\* the values a settings dict can hold under one top-level key: nothing, a
\* scalar, null, an empty dict, or a dict of the given keys
Section(key, subkeys) ==
    {{}} \cup {{<<(<<key>>), value>>} : value \in {"user", "null", "{}"}}
    \cup {{<<(<<key, k>>), chosen[k]>> : k \in {s \in subkeys : chosen[s] # "absent"}} :
             chosen \in [subkeys -> {"absent", "user", "{}"}]}

SettingsDicts ==
    {aws \cup codebuild : aws \in Section("aws", {"region", "profile"}),
                          codebuild \in Section("codebuild", {"serviceRole", "subnets"})}

InitSettings ==
    /\ locks = EmptyLocks
    /\ hold_start = NoStarts
    /\ first_hold = NoStarts
    /\ now = 0
    /\ mutex = NoThread
    /\ call = [t \in Threads |-> IdleCall]
    /\ upd = IdleUpdate
    /\ files = {}
    /\ meta = EmptyMeta
    /\ cr = IdleCreate
    /\ remote = NoRemote
    /\ del = IdleDelete
    /\ save_req = IdlePost
    /\ peer = IdleCreate
    /\ chk = IdleCheck
    /\ manifest_template = NoTemplates
    /\ gen = IdleGen
    /\ stg = IdleSettings

NextSettings ==
    \/ \E settings \in SettingsDicts : SaveSettings(settings)
    \/ LoadPipelineSettings
    \/ MergeAgain
    \/ SettingsReturn

SpecSettings == InitSettings /\ [][NextSettings]_vars

(***************************************************************************)
(* Claims about the settings merge.                                         *)
(***************************************************************************)
\* `path` leads to a value of the dict
HasPath(dict, path) ==
    \E e \in dict : Len(e[1]) >= Len(path) /\ SubSeq(e[1], 1, Len(path)) = path

Merged == stg.pc \in {"merged", "remerged"}

DefaultPathsKept == \A e \in DefaultSettings : HasPath(stg.merged, e[1])

\* a scalar of the user stands in the result as supplied; where the user
\* supplied an empty dict the result has a dict
UserValuesKept ==
    \A e \in stg.settings :
        IF e[2] = "{}"
        THEN HasPath(stg.merged, e[1]) /\ \A r \in stg.merged : r[1] = e[1] => r[2] = "{}"
        ELSE e \in stg.merged

\* C28: merge_with_defaults keeps every key path of the defaults in its
\* result, gives the user's value at every path the user supplied, leaves
\* defaults as it was, and merging the result over the defaults again
\* returns the same result.
C28_MergeKeepsDefaults ==
    Merged =>
        /\ DefaultPathsKept
        /\ UserValuesKept
        /\ stg.defaults = DefaultSettings
        /\ stg.pc = "remerged" => stg.again = stg.merged

(***************************************************************************)
(* Claims about the rollback ledger.                                        *)
(***************************************************************************)
\* the name the ledger must hold for a create call: the created resource
\* once the call has succeeded for the item at hand, nothing before
Recorded(what, created, nothing) == IF OkAt(what) # {} THEN created ELSE nothing

InCreation == cr.pc \notin {"idle", "responded"} /\ cr.idx \in 1..Len(cr.batch)

\* C29: while an item of a create request is handled, the ledger names
\* exactly the registry repository, artifact bucket, build project and
\* pipeline whose create call has succeeded for this item; a call that
\* failed or found the resource already there has recorded nothing.
C29_LedgerHoldsSucceededCreates ==
    InCreation =>
        /\ cr.ledger.ecr_repository = Recorded("create_repository", CurrentName, NoName)
        /\ cr.ledger.s3_bucket = Recorded("create_bucket", cr.bucket_name, NoBucket)
        /\ cr.ledger.codebuild_project = Recorded("create_project", CurrentName, NoName)
        /\ cr.ledger.codepipeline = Recorded("create_pipeline", CurrentName, NoName)

\* a repository and a bucket are recorded, the project was found to exist and
\* the pipeline call failed
C29_Witness ==
    /\ InCreation
    /\ cr.ledger.ecr_repository = CurrentName
    /\ cr.ledger.s3_bucket # NoBucket
    /\ Outcome("create_project", "exists")
    /\ cr.ledger.codebuild_project = NoName
    /\ Outcome("create_pipeline", "error")
    /\ cr.ledger.codepipeline = NoName

(***************************************************************************)
(* Claims about the termination of a create request.                        *)
(***************************************************************************)
\* every remote call of the request returns, so the request takes its next step
SpecCreateLive == SpecCreate /\ WF_vars(NextCreate)

\* item k of the request being served has a name that passes validation
AcceptedItem(k) ==
    /\ cr.pc # "idle"
    /\ k <= Len(cr.batch)
    /\ validation_errors(cr.batch[k].name) = <<>>

\* item k has been given its outcome: created, or an error (with status
\* error after a failed creation, without status after a refusal)
Reported(k) ==
    /\ k <= Len(cr.created_pipelines)
    /\ \/ cr.created_pipelines[k].status \in {"created", "error"}
       \/ cr.created_pipelines[k].success = FALSE

RollingBack == cr.pc \in {RollbackOrder[i] : i \in 1..Len(RollbackOrder)}

\* the names reported as created so far in this request
DoneNames ==
    {cr.created_pipelines[i].name : i \in WithStatus(cr.created_pipelines, "created")}

\* an outcome once given stays as it is
OutcomeKept ==
    \A k \in 1..Len(cr.created_pipelines) :
        /\ k <= Len(cr'.created_pipelines)
        /\ cr'.created_pipelines[k] = cr.created_pipelines[k]

\* no step removes the pipeline, project, repository or bucket of a name
\* reported as created
DoneNotRolledBack ==
    /\ \A kind \in {"codepipeline", "codebuild", "ecr"} :
          (remote[kind] \ remote'[kind]) \cap DoneNames = {}
    /\ \A s \in remote.store : s[1] \in DoneNames => (s \in remote'.store /\ s[2] \in remote'.s3)

MaxBatch == 2

\* C30: when every remote call returns, each item of a create request whose
\* name passes validation is eventually given one outcome, created or error,
\* which it keeps; the rollback of an item comes to an end; and nothing of an
\* item reported as created is rolled back afterwards.
C30_EveryItemReachesOneOutcome ==
    /\ \A k \in 1..MaxBatch : AcceptedItem(k) ~> Reported(k)
    /\ RollingBack ~> ~RollingBack
    /\ [][OutcomeKept /\ DoneNotRolledBack]_vars

(***************************************************************************)
(* Claims about the sweep and the release route.                            *)
(***************************************************************************)
ManagerOps == {"acquire", "release", "refresh", "status", "all"}

\* what the call c returns when it finds the table tbl
ResultOn(c, tbl) ==
    CASE c.op = "acquire" ->
             IF tbl[c.p] # NoLock /\ ~Expired(tbl[c.p], c.at)
                /\ AcquireConflict(tbl[c.p], c.u, c.force)
             THEN AcquireFailure(tbl[c.p])
             ELSE AcquireSuccess(c.u, c.at)
      [] c.op = "release" -> ReleaseOutcome(tbl, c.p, c.u).ret
      [] c.op = "refresh" -> RefreshOutcome(tbl, c.p, c.u, c.at).ret
      [] c.op = "status" -> StatusOutcome(tbl, c.p, c.at).ret
      [] OTHER -> AllLocksView(tbl, c.at)

\* the call of thread t has returned what it would have returned had
\* _cleanup_expired_locks run just before it
SameAsSwept(t) == call[t].ret = ResultOn(call[t], Sweep(call[t].pre, call[t].at))

Returned(t, ops) == call[t].pc = "done" /\ call[t].op \in ops

\* C31: every call of acquire, release, refresh, status and allStatuses
\* returns the result it would return if _cleanup_expired_locks had removed
\* the expired entries just before the call.
C31_SweepChangesNoResult ==
    \A t \in Threads : Returned(t, ManagerOps) => SameAsSwept(t)

\* the DELETE lock route was called by the user holding the lock of the pipeline
HolderDeleteServed(t) ==
    /\ Returned(t, {"route_release"})
    /\ call[t].pre[call[t].p] # NoLock
    /\ call[t].pre[call[t].p].user_id = call[t].u

\* C32: a DELETE request on the lock route made by the user who holds the
\* lock is answered 200 with success true and leaves the pipeline without a
\* lock entry, so that any other user's acquire succeeds next.
C32_HolderDeleteReleases ==
    \A t \in Threads :
        HolderDeleteServed(t) =>
            /\ call[t].http = 200
            /\ call[t].ret.success = TRUE
            /\ call[t].post[call[t].p] = NoLock

\* a non-forced acquire_lock of pipeline p by user u at the present time
AcquireNow(p, u) == [op |-> "acquire", p |-> p, u |-> u, force |-> FALSE, at |-> now]

\* the present holder of p first acquired it more than the timeout ago
HeldPastFirstTimeout(p) ==
    /\ locks[p] # NoLock
    /\ now > first_hold[p] + lock_timeout_minutes

\* C33: once the time is later than a holder's first acquisition plus the
\* timeout, whatever acquire_lock and refresh_lock calls the holder made since,
\* a non-forced acquire_lock by any other user succeeds.
C33_NoHoldPastFirstTimeout ==
    \A p \in Pipelines : \A u \in Users :
        (HeldPastFirstTimeout(p) /\ u # locks[p].user_id)
            => ResultOn(AcquireNow(p, u), locks).success = TRUE

(***************************************************************************)
(* One update_pipeline request served while acquire_lock calls of other      *)
(* users arrive on another thread and the clock runs.  At the start no       *)
(* pipeline is locked and each has a metadata record.                        *)
(***************************************************************************)
InitGuard ==
    /\ locks = EmptyLocks
    /\ hold_start = NoStarts
    /\ first_hold = NoStarts
    /\ now = 0
    /\ mutex = NoThread
    /\ call = [t \in Threads |-> IdleCall]
    /\ upd = IdleUpdate
    /\ files = {}
    /\ meta = [p \in Pipelines |-> SeedRecord]
    /\ cr = IdleCreate
    /\ remote = NoRemote
    /\ del = IdleDelete
    /\ save_req = IdlePost
    /\ InitUtil

\* a non-forced acquire_lock call for the pipeline of the request in service,
\* made by a user other than the request's
ForeignAcquire(u) ==
    /\ upd.pc # "idle"
    /\ u # upd.u
    /\ CallAcquire(MainThread, upd.p, u, FALSE)

NextGuard ==
    \/ Tick
    \/ \E u \in Users : ForeignAcquire(u)
    \/ AcquireEnter(MainThread)
    \/ AcquireCheck(MainThread)
    \/ AcquireWrite(MainThread)
    \/ \E p \in Pipelines, u \in Users, cfg \in UpdateConfigs : UpdateBegin(p, u, cfg)
    \/ \E ok \in BOOLEAN : UpdateAppsettings(ok)
    \/ \E ok \in BOOLEAN : UpdateManifest(ok)
    \/ \E ok \in BOOLEAN : UpdateScaling(ok)
    \/ \E ok \in BOOLEAN : UpdateLoadMetadata(ok)
    \/ UpdateSaveMetadata

SpecGuard == InitGuard /\ [][NextGuard]_vars

\* the step uploads a file of the request or writes its metadata record
UpdateWrites == upd'.uploaded # upd.uploaded \/ upd'.wrote # upd.wrote

\* pipeline p is under an unexpired lock of a user other than u
LockedByOther(p, u) ==
    /\ locks[p] # NoLock
    /\ ~Expired(locks[p], now)
    /\ locks[p].user_id # u

\* C34: whenever an update_pipeline request uploads a file or writes the
\* metadata of its pipeline, no unexpired lock on that pipeline is held by a
\* user other than the request's user.
C34_NoWriteUnderForeignLock ==
    [][UpdateWrites => ~LockedByOther(upd.p, upd.u)]_vars

(***************************************************************************)
(* Concurrent metadata requests: one update_pipeline, one POST               *)
(* pipeline-metadata and one delete request, each for any pipeline, their    *)
(* steps interleaved while the clock runs.  Every remote call answers; at the     *)
(* start each pipeline has a metadata record and nothing else exists.        *)
(***************************************************************************)
InitMeta ==
    /\ locks = EmptyLocks
    /\ hold_start = NoStarts
    /\ first_hold = NoStarts
    /\ now = 0
    /\ mutex = NoThread
    /\ call = [t \in Threads |-> IdleCall]
    /\ upd = IdleUpdate
    /\ files = {}
    /\ meta = [p \in Pipelines |-> SeedRecord]
    /\ cr = IdleCreate
    /\ remote = NoRemote
    /\ del = IdleDelete
    /\ save_req = IdlePost
    /\ InitUtil

NextMeta ==
    \/ Tick
    \/ \E p \in Pipelines : UpdateBegin(p, "alice", {"branchName"})
    \/ UpdateAppsettings(TRUE)
    \/ UpdateManifest(TRUE)
    \/ UpdateScaling(TRUE)
    \/ UpdateLoadMetadata(TRUE)
    \/ UpdateSaveMetadata
    \/ \E p \in Pipelines : PostLoad(p, TRUE, TRUE)
    \/ PostSave(PostedData, {})
    \/ \E p \in Pipelines : del.runs < MaxRuns /\ DeleteBegin(p, TRUE)
    \/ DeleteCodePipeline("ok")
    \/ DeleteProject("ok")
    \/ DeleteRepository("ok")
    \/ DeleteBucket("answer", "ok", {})
    \/ DeleteManifestFolder("ok", {})
    \/ DeleteAppsettingsFolder("ok", {})
    \/ DeleteMetadata(TRUE)

SpecMeta == InitMeta /\ [][NextMeta]_vars

\* the pipeline name the request taking the step is addressed to
Addressee ==
    IF upd' # upd THEN upd.p
    ELSE IF save_req' # save_req THEN save_req.p
    ELSE del.p

\* C35: a request changes the metadata record of no pipeline but the one it is
\* addressed to: no other record is put back, replaced or removed by it.
C35_RecordsChangeByAddresseeOnly ==
    [][\A q \in Pipelines : meta'[q] # meta[q] => q = Addressee]_vars

(***************************************************************************)
(* Two create_pipelines requests for the same name, served by two workers    *)
(* (app.run serves each request in its own thread): cr is the request of the *)
(* worker taking steps and peer the request of the other; Switch lets the    *)
(* other worker run.  Nothing exists at the start; every remote call answers *)
(* except that create_project may fail.                                      *)
(***************************************************************************)
PairItem == [name |-> "svc-api", cfg |-> {"appsettings"}, missing |-> {}]

Switch ==
    /\ cr' = peer
    /\ peer' = cr
    /\ UNCHANGED <<lockVars, upd, files, meta, remote, del, save_req, manifest_template,
                   gen, stg, chk>>

InitPair ==
    /\ locks = EmptyLocks
    /\ hold_start = NoStarts
    /\ first_hold = NoStarts
    /\ now = 0
    /\ mutex = NoThread
    /\ call = [t \in Threads |-> IdleCall]
    /\ upd = IdleUpdate
    /\ files = {}
    /\ meta = EmptyMeta
    /\ cr = IdleCreate
    /\ remote = NoRemote
    /\ del = IdleDelete
    /\ save_req = IdlePost
    /\ InitUtil

NextPair ==
    \/ Tick
    \/ Switch
    \/ CreateBegin(<<PairItem>>)
    \/ ItemStart
    \/ CheckPipeline("answer")
    \/ CheckProject("answer")
    \/ CheckRepository("answer")
    \/ CheckManifest("answer")
    \/ CheckAppsettings("answer")
    \/ CreateRepository("ok")
    \/ CreateBucket("ok")
    \/ PrepareBuild("ok")
    \/ \E out \in Results : CreateProject(out)
    \/ CreatePipeline("ok")
    \/ ResolveArn("ok")
    \/ UploadAppsettings("ok")
    \/ SaveMetadata("ok", now)
    \/ RollbackRepository("ok")
    \/ RollbackBucket("ok")
    \/ Classify

SpecPair == InitPair /\ [][NextPair]_vars

\* the request has answered
Finished(c) == c.pc = "responded"

\* the request reports its item with status created
ReportsCreated(c) ==
    /\ Finished(c)
    /\ Len(c.created_pipelines) = 1
    /\ c.created_pipelines[1].status = "created"

\* the registry repository, the build project and the pipeline of the name exist
AllExist(name) ==
    /\ name \in remote.ecr
    /\ name \in remote.codebuild
    /\ name \in remote.codepipeline

\* C36: when two create requests for one name, started with nothing existing,
\* have both finished, at most one of them reports status created, and if one
\* does the repository, the build project and the pipeline of the name exist.
C36_OneCreatorAndResourcesStay ==
    (Finished(cr) /\ Finished(peer)) =>
        /\ ~(ReportsCreated(cr) /\ ReportsCreated(peer))
        /\ (ReportsCreated(cr) \/ ReportsCreated(peer)) => AllExist(PairItem.name)

\* bucket b is the one pipeline q's record names or q's artifact store
BelongsTo(b, q) ==
    \/ meta[q] # NoRecord /\ meta[q].s3Bucket = b
    \/ <<q, b>> \in remote.store

\* C37: no step of a delete request for one pipeline deletes a bucket that
\* belongs to another pipeline.
C37_OnlyOwnBucketDeleted ==
    [][\A b \in remote.s3 \ remote'.s3 :
           \A q \in Pipelines \ {del.p} : ~BelongsTo(b, q)]_vars

(***************************************************************************)
(* A pipeline is created, updated any number of times and then deleted, one  *)
(* request at a time, every remote call succeeding.  The scalingConfig of    *)
(* each request has type hpa (or none), kafka or keda.                       *)
(***************************************************************************)
ScalingTypes == {{}, {"type=kafka"}, {"type=keda"}}

FileConfigs == {{"appsettings", "deployment", "scaling"} \cup type : type \in ScalingTypes}

FileItems == {[name |-> "svc-api", cfg |-> cfg, missing |-> {}] : cfg \in FileConfigs}

\* the create request has answered and no other request is in service
AfterCreate ==
    /\ cr.pc = "responded"
    /\ upd.pc = "idle"
    /\ del.pc = "idle"

NextFiles ==
    \/ \E item \in FileItems : Quiet /\ CreateBegin(<<item>>)
    \/ ItemStart
    \/ CheckPipeline("answer")
    \/ CheckProject("answer")
    \/ CheckRepository("answer")
    \/ CheckManifest("answer")
    \/ CheckAppsettings("answer")
    \/ CreateRepository("ok")
    \/ CreateBucket("ok")
    \/ PrepareBuild("ok")
    \/ CreateProject("ok")
    \/ CreatePipeline("ok")
    \/ UploadAppsettings("ok")
    \/ UploadManifest("ok")
    \/ UploadScaling("ok")
    \/ SaveMetadata("ok", now)
    \/ Classify
    \/ \E u \in Users, cfg \in FileConfigs : AfterCreate /\ UpdateBegin("svc-api", u, cfg)
    \/ UpdateAppsettings(TRUE)
    \/ UpdateManifest(TRUE)
    \/ UpdateScaling(TRUE)
    \/ UpdateLoadMetadata(TRUE)
    \/ UpdateSaveMetadata
    \/ UpdateReturn
    \/ AfterCreate /\ DeleteBegin("svc-api", TRUE)
    \/ DeleteCodePipeline("ok")
    \/ DeleteProject("ok")
    \/ DeleteRepository("ok")
    \/ DeleteBucket("answer", "ok", {})
    \/ DeleteManifestFolder("ok", {})
    \/ DeleteAppsettingsFolder("ok", {})
    \/ DeleteMetadata(TRUE)

SpecFiles == InitRecord /\ [][NextFiles]_vars

\* the files of pipeline p present in the repositories
FilesOf(p) == {f \in files : f[1] = p}

\* C38: once a pipeline that was created, and possibly updated, has been
\* deleted with every remote call succeeding, none of the files uploaded for
\* it is left in the repositories.
C38_DeleteLeavesNoFile ==
    del.pc = "responded" => FilesOf(del.p) = {}

(***************************************************************************)
(* The one table of the Metadata Store: pipeline items under their names     *)
(* (meta) and the settings item under the reserved key (stg.stored).         *)
(***************************************************************************)
\* settings_key = f"_SETTINGS_{setting_type}"
SettingsKey == "_SETTINGS_pipeline_settings"

\* DynamoDBStorage.list_pipelines: table.scan() returns every item of the
\* table and each gets its key back as 'name'; the order of the list (by
\* lastUpdated) is left out
list_pipelines(table, stored) ==
    {[name |-> q, item |-> table[q]] : q \in {n \in Pipelines : table[n] # NoRecord}}
        \cup (IF stored.exists THEN {[name |-> SettingsKey, item |-> stored]} ELSE {})

\* storage.delete_pipeline(pipeline_name)
DeletePipeline(p, ok) ==
    /\ meta' = delete_pipeline(meta, p, ok).table
    /\ UNCHANGED <<lockVars, upd, del, save_req, utilVars, files, cr, remote>>

TableSettings == {DefaultSettings, {<<(<<"aws", "region">>), "eu-west-1">>}}

NextTable ==
    \/ \E settings \in TableSettings : SaveSettings(settings)
    \/ \E p \in Pipelines, ok \in BOOLEAN : SavePipeline(p, PostedData, ok)
    \/ \E p \in Pipelines, ok \in BOOLEAN : DeletePipeline(p, ok)
    \/ \E p \in Pipelines, ok \in BOOLEAN : PostLoad(p, TRUE, ok)
    \/ PostSave(PostedData, {})
    \/ PostReturn
    \/ \E p \in Pipelines : UpdateBegin(p, "alice", {"branchName"})
    \/ UpdateAppsettings(TRUE)
    \/ UpdateManifest(TRUE)
    \/ UpdateScaling(TRUE)
    \/ \E ok \in BOOLEAN : UpdateLoadMetadata(ok)
    \/ UpdateSaveMetadata
    \/ UpdateReturn

SpecTable == InitRecord /\ [][NextTable]_vars

\* the step is the bulk re-save of update_pipeline or of POST pipeline-metadata
BulkResave ==
    \/ upd.pc = "save" /\ upd'.pc = "responded"
    \/ save_req.pc = "loaded" /\ save_req'.pc = "responded"

ListsPipelinesOnly == \A e \in list_pipelines(meta, stg.stored) : e.name # SettingsKey

\* C39: list_pipelines never returns an entry stored under the reserved
\* settings key, and the bulk re-save of update_pipeline and of POST
\* pipeline-metadata leaves the settings entry as it is.
C39_SettingsApartFromPipelines ==
    /\ []ListsPipelinesOnly
    /\ [][BulkResave => stg'.stored = stg.stored]_vars

(***************************************************************************)
(* POST /api/validate-pipeline-name (lines 448-504).                         *)
(***************************************************************************)
\* the format checks with a pattern that must match up to the very end
FormatErrorsFullMatch(pipeline_name) ==
    LET chars == Spelling(pipeline_name)
    IN  IF InNameLanguage(chars) \/ chars = <<>> \/ chars[Len(chars)] # Newline
        THEN validation_errors(pipeline_name)
        ELSE validation_errors(pipeline_name)
             \o <<"Pipeline name must start with a letter or number and contain only lowercase letters, numbers, and hyphens">>

\* lines 460-485: the format checks of the route; an empty name returns at
\* once with the one error
format_errors(pipeline_name) ==
    LET chars == Spelling(pipeline_name)
        too_short == Len(chars) < 3
        too_long == Len(chars) > 60
        not_lower == \E i \in 1..Len(chars) : chars[i] \in UpperLetters
        no_match == ~MatchesNamePattern(chars)
    IN  IF chars = <<>>
        THEN <<"Pipeline name is required">>
        ELSE (IF too_short THEN <<"Pipeline name must be at least 3 characters">> ELSE <<>>)
             \o (IF too_long THEN <<"Pipeline name must not exceed 60 characters">> ELSE <<>>)
             \o (IF not_lower THEN <<"Pipeline name must be lowercase">> ELSE <<>>)
             \o (IF no_match
                 THEN <<"Pipeline name must start with a letter or number and contain only lowercase letters, numbers, and hyphens">>
                 ELSE <<>>)

\* the route: the format checks, then for a name without format error
\* codepipeline.get_pipeline, whose answer is the pipeline, not found, or
\* another error (`out` = "error"), which the outer handler answers with 500
ValidatePipelineName(pipeline_name, out) ==
    LET errors == format_errors(pipeline_name)
        req == [IdleCheck EXCEPT !.pc = "responded", !.name = pipeline_name]
    IN  /\ chk.pc = "idle"
        /\ out \in Outcomes
        /\ chk' = IF Spelling(pipeline_name) = <<>>
                  THEN [req EXCEPT !.errors = errors, !.http = 200]
                  ELSE IF errors # <<>>
                  THEN [req EXCEPT !.errors = errors, !.success = TRUE, !.http = 200]
                  ELSE IF out = "error"
                  THEN [req EXCEPT !.http = 500]
                  ELSE IF pipeline_name \in remote.codepipeline
                  THEN [req EXCEPT !.errors = <<"Pipeline already exists">>,
                                   !.success = TRUE, !.http = 200]
                  ELSE [req EXCEPT !.success = TRUE, !.valid = TRUE, !.http = 200]
        /\ UNCHANGED <<lockVars, upd, files, meta, cr, remote, del, save_req,
                       manifest_template, gen, stg, peer>>

\* validate_pipeline_name: return jsonify(...)
ValidateReturn ==
    /\ chk.pc = "responded"
    /\ chk' = IdleCheck
    /\ UNCHANGED <<lockVars, upd, files, meta, cr, remote, del, save_req,
                   manifest_template, gen, stg, peer>>

(***************************************************************************)
(* A name is given to the route and, as the one item of a batch, to          *)
(* create_pipelines; the pipeline svc-api exists or not.                     *)
(***************************************************************************)
InitNames ==
    /\ locks = EmptyLocks
    /\ hold_start = NoStarts
    /\ first_hold = NoStarts
    /\ now = 0
    /\ mutex = NoThread
    /\ call = [t \in Threads |-> IdleCall]
    /\ upd = IdleUpdate
    /\ files = {}
    /\ meta = EmptyMeta
    /\ cr = IdleCreate
    /\ remote \in {NoRemote, [NoRemote EXCEPT !.codepipeline = {"svc-api"}]}
    /\ del = IdleDelete
    /\ save_req = IdlePost
    /\ InitUtil

NextNames ==
    \/ \E name \in TestNames, out \in Outcomes : ValidatePipelineName(name, out)
    \/ ValidateReturn
    \/ \E item \in NameItems : CreateBegin(<<item>>)
    \/ ItemStart
    \/ Classify
    \/ CreateReturn

SpecNames == InitNames /\ [][NextNames]_vars

\* the format messages among the errors the route answered with
RouteFormatErrors == IF chk.errors = <<"Pipeline already exists">> THEN <<>> ELSE chk.errors

\* batch creation has validated the name of its item
BatchValidated == cr.idx = 1 /\ cr.pc \in {"chk_pipeline", "classify", "responded"}

\* the validation errors batch creation reported for its item
BatchFormatErrors ==
    IF cr.created_pipelines = <<>> THEN <<>> ELSE cr.created_pipelines[1].error[2]

\* route and batch have both judged the same name
SameNameJudged ==
    /\ chk.pc = "responded"
    /\ chk.http = 200
    /\ BatchValidated
    /\ cr.batch[1].name = chk.name

\* C40: for every name the route and batch creation report the same format
\* errors, so a name is format-valid for the one exactly when it is accepted
\* by the other.
C40_SameFormatRules ==
    SameNameJudged =>
        /\ RouteFormatErrors = BatchFormatErrors
        /\ (RouteFormatErrors = <<>>) <=> (cr.created_pipelines = <<>>)

C40_Witness ==
    /\ SameNameJudged
    /\ Len(RouteFormatErrors) = 3

====
